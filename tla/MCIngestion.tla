---------------------------- MODULE MCIngestion ----------------------------
(* Instances of Ingestion for TLC. *)
EXTENDS Ingestion, TLC

CONSTANTS s1, s2, s3, j1, j2, f1, f2, f3, jan, feb, c1, c2, w1, w2

\* Two statements of overlapping periods: row f2 is printed on both.
Overlapping == (jan :> {f1, f2}) @@ (feb :> {f2, f3})
\* Two uploads of the same document, and one of each of two documents.
SameDocument  == [s \in Statements |-> jan]
TwoOfOne      == (s1 :> jan) @@ (s2 :> jan) @@ (s3 :> feb)
OneOfEach     == (s1 :> jan) @@ (s2 :> feb)
Reconciling   == (jan :> "trusted") @@ (feb :> "trusted")
OneUntrusted  == (jan :> "trusted") @@ (feb :> "untrusted")

\* Requests, workers and job ids are interchangeable; so are the statements
\* when they are uploads of one document.
Symmetric == Permutations(Clients) \union Permutations(Workers) \union Permutations(Jobs)
SymmetricUploads == Symmetric \union Permutations({s1, s2})
=============================================================================
