------------------------------- MODULE Routes -------------------------------
(***************************************************************************)
(* Addresses: app.parse_route, split_archive_member and viewer_url, and a  *)
(* reader who follows the links of hub pages (app._handle_hub) through a   *)
(* tree and its archives.  Every link is shown for something; the question *)
(* is what the server takes the address for.                               *)
(*                                                                         *)
(* A string is a sequence of characters.  A character is a symbol and the  *)
(* number of times it is percent-encoded: a file name that contains the    *)
(* three characters "%21" contains the symbol "!" encoded once.  quote()   *)
(* adds one to whatever it does not leave alone and unquote() takes one    *)
(* away.  The symbol "w" stands for any text that means nothing here, and  *)
(* the words after which the modes are named are symbols of their own.     *)
(* The prefix /__view__/ that all addresses have is left out.              *)
(***************************************************************************)
EXTENDS SequencesExt

CONSTANTS
    Names,          \* names of files and directories
    MemberNames,    \* names of archive members, perhaps with directories
    Trees,          \* the trees there may be: what kind of file each path is
    Contents,       \* the sets of members that archives may have
    MaxEsc          \* bound on the encodings of a character in a name

Symbols    == {"/", "!", "w", "text", "preview.pdf", "raw"}
Characters == [sym : Symbols, esc : 0..MaxEsc]
Plain(sym) == [sym |-> sym, esc |-> 0]
Slash      == Plain("/")
Bang       == Plain("!")

\* SUFFIXES; the hub's address has no suffix.
SUFFIXES == [text |-> "text", preview_pdf |-> "preview.pdf", raw |-> "raw"]
Modes    == DOMAIN SUFFIXES \union {"hub"}

ASSUME NamesAssumption ==
    /\ Names \subseteq Seq(Characters) \ {<<>>}
    /\ \A n \in Names : ~Contains(n, Slash)
\* validate_member_name refuses names with empty components, which are left out.
ASSUME MembersAssumption ==
    /\ MemberNames \subseteq Seq(Characters) \ {<<>>} /\ Contents \subseteq SUBSET MemberNames
    /\ \A m \in MemberNames : Last(m) # Slash
ASSUME EscAssumption     == MaxEsc \in Nat
ASSUME TreesAssumption   ==
    \A t \in Trees :
        /\ <<>> \in DOMAIN t
        /\ \A p \in DOMAIN t :
             /\ p \in Seq(Names) /\ t[p] \in {"directory", "file", "archive"}
             /\ p = <<>> \/ (Front(p) \in DOMAIN t /\ t[Front(p)] = "directory")

VARIABLES
    tree,           \* the files under the root
    stored, nested, \* the members of every archive, and those that are archives
    turn,           \* whose it is: the reader's or the server's
    page,           \* the hub page being read: what it is of, and its relpath
    link, request,  \* the last link: what it was shown for, and its address
    got             \* what the server took the address for

files     == <<tree, stored, nested>>
routeVars == <<files, turn, page, link, request, got>>

\* Something the viewer can show: a file, or what is at the end of a chain of
\* archive members.
Entries == [path : Seq(Names), member : Seq(MemberNames)]
Links   == [entry : Entries, mode : {"hub", "text", "preview_pdf", "raw"}]
NoLink  == [entry |-> [path |-> <<>>, member |-> <<>>], mode |-> "none"]
Nowhere == NoLink

---------------------------------------------------------------------------
(* Addresses *)

\* Variant of Quote: percent signs are left as they are (safe="/%").
QuoteSparingly(s) == [i \in DOMAIN s |-> IF s[i] = Bang THEN [s[i] EXCEPT !.esc = 1] ELSE s[i]]

\* urllib.parse.quote: "/" and ordinary text are safe.
Quote(s) ==
    [i \in DOMAIN s |-> IF s[i].esc = 0 /\ s[i] # Bang THEN s[i]
                        ELSE [s[i] EXCEPT !.esc = @ + 1]]

\* urllib.parse.unquote
Unquote(s) == [i \in DOMAIN s |-> IF s[i].esc = 0 THEN s[i] ELSE [s[i] EXCEPT !.esc = @ - 1]]

Suffix(mode) == IF mode = "hub" THEN <<>> ELSE <<Slash, Plain(SUFFIXES[mode])>>

viewer_url(rel, mode) == Quote(rel) \o Suffix(mode)

EndsIn(s, mode) == mode # "hub" /\ IsSuffix(Suffix(mode), s)

\* Variant of ParseRoute: the slash before the suffix stays.
ParseRouteToWord(rest) ==
    IF \E m \in Modes : EndsIn(rest, m)
    THEN [rel  |-> Front(rest), mode |-> CHOOSE m \in Modes : EndsIn(rest, m)]
    ELSE [rel |-> rest, mode |-> "hub"]

\* parse_route: a suffix, or what is nothing but a suffix without its slash.
ParseRoute(rest) ==
    IF \E m \in Modes : EndsIn(<<Slash>> \o rest, m)
    THEN LET mode == CHOOSE m \in Modes : EndsIn(<<Slash>> \o rest, m)
         IN  [rel  |-> SubSeq(rest, 1, Len(rest) - 2), mode |-> mode]
    ELSE [rel |-> rest, mode |-> "hub"]

\* split_archive_member: at the first "!"; the member is decoded once more,
\* though the whole path has been already.
SplitArchiveMember(rel) ==
    IF ~Contains(rel, Bang) THEN [archive |-> rel, member |-> <<>>]
    ELSE LET i == Min({j \in DOMAIN rel : rel[j] = Bang})
         IN  [archive |-> SubSeq(rel, 1, i - 1),
              member  |-> <<Unquote(SubSeq(rel, i + 1, Len(rel)))>>]

LStrip(s) == IF \A i \in DOMAIN s : s[i] = Slash THEN <<>>
             ELSE SubSeq(s, Min({i \in DOMAIN s : s[i] # Slash}), Len(s))

\* Variant of RStrip: the page keeps the relpath it was asked with.
RStripForgotten(s) == s
RStrip(s) == IF \A i \in DOMAIN s : s[i] = Slash THEN <<>>
             ELSE SubSeq(s, 1, Max({i \in DOMAIN s : s[i] # Slash}))

\* The components of a path (security.safe_resolve): empty ones do not count.
Parts(s) ==
    LET parts[i \in 0..Len(s)] ==
          IF i = 0 THEN <<>>
          ELSE IF s[i] = Slash THEN parts[i - 1]
          ELSE IF i = 1 \/ s[i - 1] = Slash THEN Append(parts[i - 1], <<s[i]>>)
          ELSE Append(Front(parts[i - 1]), Append(Last(parts[i - 1]), s[i]))
    IN  parts[Len(s)]

JoinPath(path) ==
    LET joined[i \in 0..Len(path)] ==
          IF i = 0 THEN <<>> ELSE joined[i - 1] \o <<Slash>> \o path[i]
    IN  joined[Len(path)]

---------------------------------------------------------------------------
(* Reading pages *)

Page(path, member, rel) == [entry |-> [path |-> path, member |-> member], rel |-> rel]

RouteInit ==
    /\ tree \in Trees
    /\ stored \in Contents
    /\ nested \in SUBSET stored
    /\ turn = "reader"
    /\ page = Page(<<>>, <<>>, <<>>)
    /\ link = NoLink /\ request = <<>> /\ got = Nowhere

Click(entry, mode, url) ==
    /\ turn = "reader" /\ turn' = "server"
    /\ link' = [entry |-> entry, mode |-> mode]
    /\ request' = url
    /\ got' = Nowhere
    /\ UNCHANGED <<files, page>>

Kind == IF page.entry.member = <<>> THEN tree[page.entry.path]
        ELSE IF Last(page.entry.member) \in nested THEN "archive" ELSE "file"

\* The links every hub page begins with.
FollowMode ==
    \E mode \in DOMAIN SUFFIXES : Click(page.entry, mode, viewer_url(page.rel, mode))

\* The entries of a directory.
FollowEntry ==
    /\ Kind = "directory"
    /\ \E n \in Names :
         /\ Append(page.entry.path, n) \in DOMAIN tree
         /\ Click([page.entry EXCEPT !.path = Append(@, n)], "hub",
                  viewer_url(LStrip(page.rel \o <<Slash>> \o n), "hub"))

\* The members of an archive; for one inside another they are shown as well.
FollowMember ==
    /\ Kind = "archive"
    /\ \E n \in IF page.entry.member = <<>> THEN stored ELSE MemberNames :
         Click([page.entry EXCEPT !.member = Append(@, n)], "hub",
               viewer_url(page.rel \o <<Bang>> \o n, "hub"))

\* A directory's address is typed, with a slash behind it.
TypeDirectory ==
    \E p \in DOMAIN tree :
       /\ tree[p] = "directory"
       /\ Click([path |-> p, member |-> <<>>], "typed", Quote(JoinPath(p)) \o <<Slash>>)

\* _dispatch: the file or member that the address stands for, if there is one,
\* and its page, which takes its relpath from the address.  Whether it has a
\* representation in that mode is another question (module Viewer).
Answer ==
    LET route == ParseRoute(Unquote(request))
        split == SplitArchiveMember(route.rel)
        path  == Parts(split.archive)
        hint  == IF split.member = <<>> THEN split.archive
                 ELSE split.archive \o <<Bang>> \o split.member[1]
        found == /\ path \in DOMAIN tree
                 /\ split.member # <<>> => tree[path] = "archive" /\ split.member[1] \in stored
    IN  /\ turn = "server" /\ turn' = "reader"
        /\ got' = IF found
                  THEN [entry |-> [path |-> path, member |-> split.member], mode |-> route.mode]
                  ELSE Nowhere
        /\ page' = IF found /\ route.mode = "hub" THEN Page(path, split.member, RStrip(hint))
                   ELSE page
        /\ UNCHANGED <<files, link, request>>

RouteNext == FollowMode \/ FollowEntry \/ FollowMember \/ TypeDirectory \/ Answer

RouteSpec == RouteInit /\ [][RouteNext]_routeVars

---------------------------------------------------------------------------
(* Properties *)

RouteTypeOK ==
    /\ tree \in Trees /\ nested \subseteq stored /\ stored \subseteq MemberNames
    /\ turn \in {"reader", "server"}
    /\ page.entry.path \in DOMAIN tree
    /\ page.rel = <<>> \/ Last(page.rel) # Slash
    /\ Len(page.entry.member) <= 1
    /\ ToSet(page.entry.member) \subseteq stored
    /\ link.mode \in Modes \union {"typed", "none"}
    /\ got = Nowhere \/ (got.mode \in Modes /\ got.entry.path \in DOMAIN tree)

\* What a link must be of to lead there.  No directory or file on the way has
\* a "!" in its name; a member is one of the file itself and its name has no
\* percent-encoded character; and nothing whose page is asked for is called like
\* a mode, unless a slash follows.
NamedLikeMode(e) ==
    IF e.member = <<>>
    THEN e.path # <<>> /\ \E m \in DOMAIN SUFFIXES : Last(e.path) = <<Plain(SUFFIXES[m])>>
    ELSE \E m \in DOMAIN SUFFIXES : EndsIn(Last(e.member), m)
Unambiguous(l) ==
    /\ \A n \in ToSet(l.entry.path) : ~Contains(n, Bang)
    /\ Len(l.entry.member) <= 1
    /\ \A n \in ToSet(l.entry.member) : \A c \in ToSet(n) : c.esc = 0
    /\ l.mode = "hub" => ~NamedLikeMode(l.entry)

\* A link of a hub page, and a directory's documented address, leads to what it
\* is shown for, in the mode it names, exactly if that is unambiguous
\* (app.py:80-105; DOCS.md:23, 78, 115).
Answered(l) == [entry |-> l.entry, mode |-> IF l.mode = "typed" THEN "hub" ELSE l.mode]
LinksLeadHome ==
    turn = "reader" /\ link # NoLink => (got = Answered(link) <=> Unambiguous(link))

\* However a page was reached, its links to the text, the preview and the bytes
\* are of the file that the page shows, unless it is of a member with percent
\* signs in its name (app.py:256-264).
ModeLinksAgree ==
    /\ turn = "reader" /\ link.mode \in DOMAIN SUFFIXES
    /\ \A n \in ToSet(page.entry.member) : \A c \in ToSet(n) : c.esc = 0
    => got = [entry |-> page.entry, mode |-> link.mode]
=============================================================================
