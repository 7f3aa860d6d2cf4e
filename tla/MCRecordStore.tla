--------------------------- MODULE MCRecordStore ---------------------------
(***************************************************************************)
(* RecordStore with two objects.  Content "U" is a user whose license      *)
(* property Graph left out; SKU s3 is not in core.subscribed_sku.          *)
(***************************************************************************)
EXTENDS RecordStore, TLC

CONSTANTS r1, r2, r3, o1, o2

MCLicenses == [c \in Contents |->
                  CASE c = "A" -> {"s1"}
                    [] c = "B" -> {"s2", "s3"}
                    [] OTHER -> {}]

Symmetry == Permutations(Runs) \cup Permutations(Objects)

=============================================================================
