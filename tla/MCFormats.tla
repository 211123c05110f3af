----------------------------- MODULE MCFormats ------------------------------
EXTENDS Formats, TLC

\* A letter with a capital and a digit without one.
MCUpper == [c \in {"a", "7"} |-> IF c = "a" THEN "A" ELSE c]

A == << "a" >>
Seven == << "7" >>
A7 == << "a", "7" >>

MCExtensions == {A, Seven, A7, << >>}

\* Every extension has several candidates: in 7z.dll, in both directories,
\* and twice in one file; the spaces are where they should not be.
MCOffers == [f \in Files |->
               CASE f = Main -> << << "A" >> >>
                 [] f = "codec.dll" -> << << " ", "a", " ", " ", "A", "7" >> >>
                 [] f = "a.dll" -> << << "A", "7", " " >>, << "a", "7", " ", "7" >> >>
                 [] f = "b.dll" -> << << "7", " " >> >>]

\* An extension in capitals and in small letters; none, for want of a name or
\* because the name in a directory with a dot begins with its only dot.  Items
\* without a size, too large, or directories.
MCItems ==
    {[path |-> p, isDir |-> d, size |-> z] :
        p \in {<< "x", ".", "A", "7" >>, << "x", ".", "a", "\\", ".", "7" >>, None},
        d \in {TRUE, None}, z \in {0, 2, None}}

MCHostStats ==
    {[name |-> << "x", ".", "a", ".", "a", "7" >>, size |-> 0]}

Symmetry == Permutations(Threads) \cup Permutations(Objects)

\* The extensions of a format are the words of its string in lower case, for
\* every string up to the bound, wherever its spaces are: none is lost, torn
\* or empty.
ASSUME SplitsIntoWords ==
    \A s \in Strings : FormatExtensions(s) = Words(Lower(s))
=============================================================================
