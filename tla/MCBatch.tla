-------------------------------- MODULE MCBatch --------------------------------
(* Corpora for BatchProcessor. *)
EXTENDS BatchProcessor

(* Four files, three of one name, and two of these with one report stem.    *)
FourFiles == << <<"a", "/", "b", "/", "x">>, <<"a", "/", "y">>,
                <<"a", "_", "b", "/", "x">>, <<"b", "/", "x">> >>
ThreeLarge == {2, 3, 4}

None == {}
=============================================================================
