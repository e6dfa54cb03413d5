-------------------------- MODULE MCResourceOwnership --------------------------
(* Instances of ResourceOwnership for TLC. *)
EXTENDS ResourceOwnership, TLC

CONSTANTS posts,     \* a literal segment
          number,    \* an id that normalizer and SQL agree about
          shortHash, \* 12 characters: replaced, but missed by the SQL
          sha1       \* 40 characters: matched by the SQL, but not replaced

\* One path with one id.
OneUrl == {<<posts, number>>}

\* A path with one id, one the two disagree about twice, one without an id.
MixedUrls == {<<posts, number>>, <<shortHash, sha1>>, <<posts>>}

\* User ids are interchangeable.
UserSymmetry == Permutations(User)
===============================================================================
