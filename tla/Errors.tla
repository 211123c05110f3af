------------------------------- MODULE Errors -------------------------------
(***************************************************************************)
(* How a failure leaves the library: what a function of it throws becomes  *)
(* the HRESULT its caller gets (COM_NOTHROW_END and COM_THREAD_END in      *)
(* src/native/com.hpp, hresult_from_system_error in src/native/com.cpp).   *)
(* An HRESULT is a signed 32-bit number and a failure if it is negative;   *)
(* what is thrown is [category, value].                                    *)
(***************************************************************************)
EXTENDS Integers

Failed(hr) == hr < 0
S_OK == 0
S_FALSE == 1

\* An HRESULT of the given upper 16 bits, the sign bit set.
FailureOf(upper, code) == (upper - 65536) * 65536 + code

E_NOTIMPL == FailureOf(32768, 16385)
E_POINTER == FailureOf(32768, 16387)
E_ABORT == FailureOf(32768, 16388)
E_FAIL == FailureOf(32768, 16389)
E_PENDING == FailureOf(32768, 10)
E_UNEXPECTED == FailureOf(32768, 65535)
E_ACCESSDENIED == FailureOf(32775, 5)
E_HANDLE == FailureOf(32775, 6)
E_OUTOFMEMORY == FailureOf(32775, 14)
E_INVALIDARG == FailureOf(32775, 87)

\* HRESULT_FROM_WIN32 leaves alone what is no Win32 code.
FromWin32(code) == IF code <= 0 THEN code ELSE FailureOf(32775, code % 65536)

\* registry_errc: Win32 codes with additional bits, to tell a missing key from
\* a missing value.
custom == 536870912
key_missing == custom + 2
value_missing == custom + 65536 + 2
IsCustom(value) == (value \div custom) % 2 = 1

\* The generic codes (errno of the C library) with an HRESULT of their own.
Translated ==
    [code \in {1, 4, 9, 12, 13, 14, 22, 40, 105, 112, 129, 130} |->
        CASE code \in {1, 13} -> E_ACCESSDENIED
          [] code \in {4, 105} -> E_ABORT
          [] code = 9 -> E_HANDLE
          [] code = 12 -> E_OUTOFMEMORY
          [] code = 14 -> E_POINTER
          [] code = 22 -> E_INVALIDARG
          [] code = 112 -> E_PENDING
          [] code \in {40, 129, 130} -> E_NOTIMPL]

FromGeneric(code) == IF code \in DOMAIN Translated THEN Translated[code]
                     ELSE FailureOf(40961, code % 65536)

\* hresult_from_system_error
FromSystemError(category, value) ==
    CASE category = "com" -> value
      [] category = "registry" ->
             FromWin32(IF IsCustom(value) THEN value % 65536 ELSE value)
      [] category = "system" -> FromWin32(value)
      [] category = "generic" -> FromGeneric(value)
      [] category = "iostream" -> FailureOf(40962, value % 65536)
      [] category = "future" -> FailureOf(40963, value % 65536)
      [] OTHER -> E_FAIL

\* COM_NOTHROW_END, COM_THREAD_END: other exceptions are no system_error.
HResult(thrown) ==
    CASE thrown.category = "bad_alloc" -> E_OUTOFMEMORY
      [] thrown.category = "exception" -> E_UNEXPECTED
      [] OTHER -> FromSystemError(thrown.category, thrown.value)
=============================================================================
