----------------------------- MODULE MCDataFeed -----------------------------
(***************************************************************************)
(* Two datasets of eleven batches, so that two ranks own five each and one *)
(* is dropped.  In the first a shard is shorter than a batch.              *)
(***************************************************************************)
EXTENDS DataFeed

MCTokens == [d \in {"web", "books"} |->
               IF d = "web" THEN <<9, 1, 14>> ELSE <<15, 8>>]
MCShardOrder == [d \in {"web", "books"} |->
                   IF d = "web" THEN <<3, 2, 1>> ELSE <<1, 2>>]

=============================================================================
