-------------------------- MODULE MCKBucketsTable --------------------------
(* A table of three buckets; the farthest one has more keys than slots. *)
EXTENDS KBucketsTable

MCLocalKey == {1}
\* one key of bucket 0, one of bucket 1 and three of bucket 2
MCKey == {{0, 1}, {0}, {1, 2}, {0, 1, 2}, {2}}
=============================================================================
