--------------------------- MODULE MCReleaseTags ----------------------------
(* Directories of the card: releases and pre-releases that differ where the   *)
(* order is easy to get wrong, and tags that are not a release's.             *)
EXTENDS ReleaseTags

N(n) == [numeric |-> TRUE, value |-> n]
W(n) == [numeric |-> FALSE, value |-> n]
Named(text, parts, pre) ==
    [text |-> text, parts |-> parts, dash |-> pre # << >>, pre |-> pre, plus |-> FALSE]

\* In the order of their text: 2.9.1, v2.10.0, v2.9, v2.9.0 and its
\* pre-releases -1, -a, -a.10, -a.9 and -b.
Releases == {Named(1, <<N(2), N(9), N(1)>>, << >>), Named(3, <<N(2), N(10), N(0)>>, << >>),
             Named(5, <<N(2), N(9)>>, << >>), Named(6, <<N(2), N(9), N(0)>>, << >>),
             Named(8, <<N(2), N(9), N(0)>>, <<N(1)>>),
             Named(9, <<N(2), N(9), N(0)>>, <<W(1)>>),
             Named(10, <<N(2), N(9), N(0)>>, <<W(1), N(10)>>),
             Named(11, <<N(2), N(9), N(0)>>, <<W(1), N(9)>>),
             Named(12, <<N(2), N(9), N(0)>>, <<W(2)>>)}
\* nightly, v2.5+local, v2.9.0-
Unshaped == {Named(2, <<W(1)>>, << >>),
             [Named(4, <<N(2), N(5)>>, << >>) EXCEPT !.plus = TRUE],
             [Named(7, <<N(2), N(9), N(0)>>, << >>) EXCEPT !.dash = TRUE]}

\* Three releases, or any two tags.
ReleaseDirectories == [1 .. 3 -> Releases] \cup [1 .. 2 -> Releases \cup Unshaped]
\* Any three tags.
AnyDirectories == [1 .. 3 -> Releases \cup Unshaped]
=============================================================================
