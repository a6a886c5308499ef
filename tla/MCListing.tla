----------------------------- MODULE MCListing -----------------------------
(* An instance of Listing for TLC: names 1, 2 (hidden), 3 (declared) and 4, in *)
(* the root and in the directory 1, and 5, the cache directory, not yet there. *)
EXTENDS Listing, TLC

MCNames    == 1..5
MCCacheDir == <<5>>
MCDeclared == {<<3>>}

Nothing == [kind |-> "nothing"]

\* What each name may be, so that aliases, loops, escapes and links to what is
\* denied or missing all occur.
AtRoot ==
    {<<a, Link(<<1>>), c, d>> : a \in {Dir, Link(<<3>>), Link(<<5>>)},
                               c \in {Dir, Link(<<1>>)},
                               d \in {File, Link(<<1>>), Link(<<Outside>>)}}
InOne ==
    {<<a, Nothing, Nothing, d>> : a \in {Nothing, File}, d \in {Nothing, Link(<<3>>)}}

TreeOf(root, one) ==
    LET all == (Root :> Dir)
               @@ [p \in {<<n>> : n \in 1..4} |-> root[Head(p)]]
               @@ [p \in {<<1, n>> : n \in 1..4} |-> one[p[2]]]
    IN  [p \in {q \in DOMAIN all :
                  all[q] # Nothing /\ (Len(q) = 2 => root[1] = Dir)} |-> all[p]]

MCTrees == {TreeOf(root, one) : root \in AtRoot, one \in InOne}
=============================================================================
