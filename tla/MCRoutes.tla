------------------------------ MODULE MCRoutes ------------------------------
(* An instance of Routes for TLC: an ordinary name, one that is a mode's word,  *)
(* and names with "!" and "%21" in them; every tree of up to two entries.  An  *)
(* archive without members stands for an ordinary file.                        *)
EXTENDS Routes

W        == Plain("w")
Exclaim  == <<W, Bang, W>>
Percent  == <<W, [sym |-> "!", esc |-> 1], W>>
Text     == <<Plain("text")>>

MCNames   == {<<W>>, Exclaim, Percent, Text}
MCMembers == {<<W>>, Exclaim, Percent, <<W, Slash, Plain("raw")>>,
              <<W, [sym |-> "!", esc |-> 2], W>>}

Paths   == {<<n>> : n \in MCNames} \union {<<n, m>> : n, m \in MCNames}
Kinds   == {"directory", "archive"}
Sound(t) == \A p \in DOMAIN t :
               p = <<>> \/ (Front(p) \in DOMAIN t /\ t[Front(p)] = "directory")
MCContents == UNION {kSubset(k, MCMembers) : k \in 0..2}
MCTrees ==
    {t \in UNION {[{<<>>, p, q} -> Kinds] : p, q \in Paths} : t[<<>>] = "directory" /\ Sound(t)}
=============================================================================
