------------------------ MODULE MCDictionaryCatalog ------------------------
(***************************************************************************)
(* Two versions of a corpus of two lists, with one list in common; the     *)
(* other list of the second version is one that list() does not accept.    *)
(***************************************************************************)
EXTENDS DictionaryCatalog, TLC

MCLengths  == {3, 4}
MCVersions == {"old", "new"}
MCContents == {"a", "b", "huge"}
MCExpected ==
    [v \in MCVersions |->
        [n \in MCLengths |-> IF n = 3 THEN "a" ELSE IF v = "old" THEN "b" ELSE "huge"]]
MCOversized == {"new"}

Symmetry == Permutations(Publishers)
=============================================================================
