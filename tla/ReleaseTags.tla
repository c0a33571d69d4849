----------------------------- MODULE ReleaseTags ----------------------------
(***************************************************************************)
(* Ordering release tags (app/version.rs) and the order a local source's   *)
(* images are listed in (the end of list_local_in in                       *)
(* app/firmware_catalog.rs).                                               *)
(*                                                                         *)
(* A tag is what the parser sees of it: its dot-separated parts, whether a *)
(* dash follows and with which identifiers, whether there is a plus; and   *)
(* `text`, its place among all tags compared as text.  A part is a number  *)
(* or a word, words by their place as text.                                *)
(***************************************************************************)
EXTENDS Naturals, Sequences

CONSTANTS Directory     \* the contents a local source may have, in readdir order

Part == [numeric : BOOLEAN, value : Nat]
Tag == {tag \in [text : Nat, parts : Seq(Part), dash : BOOLEAN, pre : Seq(Part), plus : BOOLEAN] :
           ~ tag.dash => tag.pre = << >>}
ASSUME DirectoryAssumption == Directory \subseteq Seq(Tag)

VARIABLES directory, candidates
tags_vars == <<directory, candidates>>

Unlisted == << >>
tags_Init == directory \in Directory /\ candidates = Unlisted

(***************************************************************************)
(* Parsing: not every tag is version-shaped.                               *)
(***************************************************************************)
parse_tag(tag) ==
    /\ tag.parts # << >> /\ ~tag.plus
    /\ tag.dash => tag.pre # << >>
    /\ \A i \in DOMAIN tag.parts : tag.parts[i].numeric

is_prerelease(tag) == parse_tag(tag) /\ tag.dash

(***************************************************************************)
(* order: -1, 0 and 1 for Less, Equal and Greater are 0, 1 and 2.          *)
(***************************************************************************)
Less == 0
Equal == 1
Greater == 2
Cmp(m, n) == IF m < n THEN Less ELSE IF m = n THEN Equal ELSE Greater
\* The answer of a loop that returns at the first difference.
FirstDifference(answers) ==
    LET differing == {i \in DOMAIN answers : answers[i] # Equal}
    IN  IF differing = {} THEN Equal
        ELSE answers[CHOOSE i \in differing : \A j \in differing : i <= j]

Padded(s, i) == IF i \in DOMAIN s THEN s[i].value ELSE 0
Widest(a, b) == IF Len(a) > Len(b) THEN Len(a) ELSE Len(b)
Narrowest(a, b) == IF Len(a) > Len(b) THEN Len(b) ELSE Len(a)

order_identifier(l, r) ==
    IF l.numeric = r.numeric THEN Cmp(l.value, r.value)
    ELSE IF l.numeric THEN Less ELSE Greater

order_pre(a, b) ==
    FirstDifference([i \in 1 .. Narrowest(a, b) |-> order_identifier(a[i], b[i])] \o <<Cmp(Len(a), Len(b))>>)

\* Seeded bug: as `sort -V` has it, a candidate comes after its release.
order_like_sort(a, b) ==
    FirstDifference(
        [i \in 1 .. Widest(a.parts, b.parts) |-> Cmp(Padded(a.parts, i), Padded(b.parts, i))]
        \o <<IF a.dash = b.dash THEN order_pre(a.pre, b.pre) ELSE IF a.dash THEN Greater ELSE Less>>)

order(a, b) ==
    FirstDifference(
        [i \in 1 .. Widest(a.parts, b.parts) |-> Cmp(Padded(a.parts, i), Padded(b.parts, i))]
        \o <<IF a.dash = b.dash THEN order_pre(a.pre, b.pre) ELSE IF a.dash THEN Less ELSE Greater>>)

Comparable(a, b) == parse_tag(a) /\ parse_tag(b)

(***************************************************************************)
(* The listing: newest first, tags that do not compare by their text.      *)
(***************************************************************************)
NewerFirst(a, b) == IF Comparable(a, b) THEN order(b, a) ELSE Cmp(b.text, a.text)

\* sort_by on a short slice: each element moves left past those it precedes.
InsertNext(sorted, x) ==
    LET after == CHOOSE n \in 0 .. Len(sorted) :
                     /\ n > 0 => NewerFirst(x, sorted[n]) # Less
                     /\ \A i \in n + 1 .. Len(sorted) : NewerFirst(x, sorted[i]) = Less
    IN  SubSeq(sorted, 1, after) \o <<x>> \o SubSeq(sorted, after + 1, Len(sorted))
sort_by(s) ==
    LET sorted[n \in 0 .. Len(s)] == IF n = 0 THEN << >> ELSE InsertNext(sorted[n - 1], s[n])
    IN  sorted[Len(s)]

\* What the board runs is one of the tags; the relation of a candidate to it.
Relation(tag, running) ==
    IF Comparable(tag, running)
    THEN CASE order(tag, running) = Equal -> "current"
           [] order(tag, running) = Greater -> "newer"
           [] order(tag, running) = Less -> "older"
    ELSE IF tag = running THEN "current" ELSE "unknown"

list_local ==
    /\ candidates = Unlisted
    /\ candidates' = sort_by(directory)
    /\ UNCHANGED directory
tags_Next == list_local
tags_Spec == tags_Init /\ [][tags_Next]_tags_vars

(***************************************************************************)
(* Properties.                                                             *)
(***************************************************************************)
\* The reference: one key for a version, compared position by position, in which
\* a final release ends higher than anything a candidate continues with.
Key(tag, width) ==
    [i \in 1 .. width |-> <<1, Padded(tag.parts, i)>>]
    \o (IF tag.dash
        THEN [i \in DOMAIN tag.pre |-> <<IF tag.pre[i].numeric THEN 1 ELSE 2, tag.pre[i].value>>] \o <<<<0, 0>>>>
        ELSE <<<<3, 0>>>>)
Below(a, b) == a[1] < b[1] \/ (a[1] = b[1] /\ a[2] < b[2])
KeyBelow(a, b) ==
    \E i \in DOMAIN a \cap DOMAIN b : Below(a[i], b[i]) /\ \A j \in 1 .. i - 1 : a[j] = b[j]

\* "Compare numbers as numbers", "a prerelease comes before its own release",
\* "v2.8 and v2.8.0 are the same release": compare() is the order of the
\* reference's keys, for every two of the tags of a directory, and what it
\* cannot order is unknown, never newer.
CompareIsTheOrder ==
    \A i, j \in DOMAIN directory :
        LET a == directory[i] b == directory[j] width == Widest(a.parts, b.parts)
        IN  /\ Comparable(a, b) => (order(a, b) = Less <=> KeyBelow(Key(a, width), Key(b, width)))
            /\ Comparable(a, b) => (order(a, b) = Greater <=> KeyBelow(Key(b, width), Key(a, width)))
            /\ Relation(a, b) \in {"newer", "older"} => Comparable(a, b) /\ Relation(a, b) # Relation(b, a)

\* "Newest first, by the same ordering the relation used": no image is listed
\* above one that is newer.
NewestFirst ==
    \A i, j \in DOMAIN candidates :
        i < j /\ Comparable(candidates[i], candidates[j]) => order(candidates[i], candidates[j]) # Less

\* compare() and the listing of the card, together.
TagsAreOrdered == CompareIsTheOrder /\ NewestFirst
=============================================================================
