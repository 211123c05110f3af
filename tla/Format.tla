------------------------------- MODULE Format -------------------------------
(***************************************************************************)
(* archive::Format (src/archive/Format.cpp): how the extensions of a       *)
(* format are taken out of the one string 7-Zip has for them, from its end *)
(* to its beginning.  The string comes from a library that anybody may     *)
(* have written: spaces may be anywhere.  Strings are sequences of         *)
(* characters, extensions are without their dot.                           *)
(***************************************************************************)
EXTENDS Naturals, Sequences, FiniteSetsExt

CONSTANTS
    Upper,     \* [character -> its upper-case letter], for those that have one
    MaxLength  \* bound on the strings MCFormats compares Split and Words on

Space == " "
Characters == DOMAIN Upper \cup {Upper[c] : c \in DOMAIN Upper} \cup {Space}

ASSUME FormatAssumption ==
    /\ MaxLength \in Nat
    /\ Characters \subseteq STRING
    /\ Space \notin DOMAIN Upper \cup {Upper[c] : c \in DOMAIN Upper}

\* _wcslwr_s
Lower(s) ==
    [k \in DOMAIN s |-> IF \E c \in DOMAIN Upper : Upper[c] = s[k]
                          THEN CHOOSE c \in DOMAIN Upper : Upper[c] = s[k]
                          ELSE s[k]]

\* Empty extensions are ignored.
IsExtension(offset, length) == offset < length

\* What is left when there is no space any more.
First(exts) == IF exts = << >> THEN {} ELSE {exts}

\* split[n] are the extensions in the first n characters: what follows the
\* last space is one, unless it is empty, and is cut off with the space.
Split(s) ==
    LET Spaces(n) == {k \in 1 .. n : s[k] = Space}
        split[n \in 0 .. Len(s)] ==
            IF Spaces(n) = {} THEN First(SubSeq(s, 1, n))
            ELSE LET offset == Max(Spaces(n))
                 IN split[offset - 1] \cup
                      (IF IsExtension(offset, n)
                         THEN {SubSeq(s, offset + 1, n)} ELSE {})
    IN split[Len(s)]

FormatExtensions(s) == Split(Lower(s))

-----------------------------------------------------------------------------
\* The words of a string, what Split is to find: its longest pieces without
\* a space.
Words(s) ==
    LET IsWord(i, j) == /\ i <= j
                        /\ \A k \in i .. j : s[k] # Space
                        /\ i = 1 \/ s[i - 1] = Space
                        /\ j = Len(s) \/ s[j + 1] = Space
    IN {SubSeq(s, p[1], p[2]) :
            p \in {q \in (DOMAIN s) \X (DOMAIN s) : IsWord(q[1], q[2])}}

Strings == UNION {[1 .. n -> Characters] : n \in 0 .. MaxLength}
=============================================================================
