----------------------------- MODULE MCResearch -----------------------------
(* An instance of Research for TLC. *)
EXTENDS Research

CONSTANTS a, b, c, d, e, f, h1, h2

\* The pages c and d are on the other host, and so is the image of b.
PageHosts == [u \in Requests |-> IF u \in {c, d} THEN h2 ELSE h1]

ImageHosts == [PageHosts EXCEPT ![b] = h2]

OneProxy == <<"vpn">>

Item(u, s, i) == [url |-> u, score |-> s, image |-> i]

\* Nothing; four pages of which the last fits the text, and two have an image; the
\* first of them again with an image, and three more whose text fits.
SomeBatches == {<<>>,
                <<Item(b, 0, FALSE), Item(c, 0, TRUE), Item(d, 0, TRUE), Item(e, 1, FALSE)>>,
                <<Item(b, 1, TRUE), Item(f, 1, FALSE), Item(d, 1, FALSE), Item(a, 1, FALSE)>>}
=============================================================================
