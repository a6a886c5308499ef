----------------------------- MODULE MCArchive -----------------------------
(* Instances of Archive for TLC. *)
EXTENDS Archive, TLC

CONSTANTS x, y, dots

MCSafe   == {x, y}
MCUnsafe == {dots}

Member(name, kind, declared, actual) ==
    [name |-> name, kind |-> kind, declared |-> declared, actual |-> actual]

\* Members that are what they say, that are longer or shorter, that are too
\* large, that say nothing, that are no files, and one with an unsafe name.
Plain == {Member(x, "file", 1, 1), Member(y, "file", 2, 2)}
Odd   == {Member(x, "file", 2, 3), Member(x, "file", 2, 1), Member(y, "file", 3, 3),
          Member(x, "link", 0, 2), Member(x, "link", 0, 0), Member(y, "dir", 0, 0),
          Member(dots, "file", 1, 1)}
Mute  == {Member(y, "file", -1, 1)}

Tars == {<<p, q, r, s>> : p, r \in Plain \union Odd, q, s \in Plain}

MCArchives ==
    [format : {"tar"}, members : {SubSeq(t, 1, n) : t \in Tars, n \in 0..4}]
    \union [format : {"zip"}, members : BoundedSeq(Plain \union Odd, 2)]
    \union [format : {"7z"}, members : BoundedSeq(Plain \union Mute \union Odd, 2)]
============================================================================
