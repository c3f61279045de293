-------------------------- MODULE MCFilePersister --------------------------
(* Messages of one and of two bytes for the file persister.                *)
EXTENDS FilePersister

Short == [id |-> "short", size |-> 1]
Long  == [id |-> "long", size |-> 2]

MCTexts == {Short, Long}

=============================================================================
