------------------------------ MODULE MCPortal ------------------------------
(* Portal for TLC.  Tokens and handlers are alike; the properties are      *)
(* invariants, so symmetry is sound.                                       *)
EXTENDS Portal, TLC

Symmetry == Permutations(Tokens) \cup Permutations(Handlers)

-----------------------------------------------------------------------------
(* Constants of TenantSettings *)

Address(blank, public) ==
    [blank |-> blank, http |-> TRUE, userinfo |-> FALSE, public |-> public]

\* A first setup, a change without a key, a new key with another number, and
\* an address that is refused.
MCBodies ==
    {[url |-> Address(FALSE, TRUE), number |-> "n1", on |-> TRUE, key |-> "k1"],
     [url |-> Address(TRUE, TRUE), number |-> "", on |-> FALSE, key |-> ""],
     [url |-> Address(FALSE, TRUE), number |-> "n2", on |-> TRUE, key |-> "k2"],
     [url |-> Address(FALSE, FALSE), number |-> "n1", on |-> TRUE, key |-> "k2"]}

\* A row an operator has left, with the label only he can set.
MCSeeds ==
    {[url |-> Address(FALSE, TRUE), number |-> "n1", on |-> TRUE,
      portal_label |-> "tower", key |-> [purpose |-> "tower.waha-key.v1", text |-> "k0"]]}

Code(name, padded) == [code |-> name, padded |-> padded]

\* One code typed in two ways, the bounds of the destinations, and a text the
\* database cannot hold.
Price(code, count) ==
    [code |-> code, array |-> TRUE, count |-> count, blankOne |-> FALSE, storable |-> TRUE]
MCPrices ==
    {Price(Code("A", FALSE), 5), Price(Code("A", TRUE), 1),
     Price(Code("B", FALSE), 1), Price(Code("B", FALSE), 6),
     [Price(Code("B", FALSE), 2) EXCEPT !.storable = FALSE]}

Place(name) == [name |-> name, storable |-> TRUE]
MCPlaces ==
    {Place(Code("A", FALSE)), Place(Code("A", TRUE)), Place(Code("", TRUE)),
     [name |-> Code("B", FALSE), storable |-> FALSE]}

Image(length, pads) == [kind |-> "png", length |-> length, pads |-> pads]
Blank == [kind |-> "none", length |-> 0, pads |-> 0]
Look(title, name, logo) ==
    [title |-> title, name |-> name, logo |-> logo, storable |-> TRUE]

\* With the image bound 3: padded to it, one byte over it, unpadded, and too
\* short to be one; and a page with a text the database cannot hold.
MCLooks ==
    {Look(2, 0, Blank), [Look(2, 1, Blank) EXCEPT !.storable = FALSE], Look(0, 1, Blank), Look(3, 1, Blank)}
    \cup {Look(1, 1, i) : i \in {Image(8, 2), Image(8, 3), Image(4, 0), Image(7, 0), Image(1, 1)}}

-----------------------------------------------------------------------------
(* Constants of LiveFeed: two tabs of one session, one of them of an       *)
(* account too.                                                            *)

CONSTANTS s, t, tabs, account
MCChannelsOf == s :> <<tabs, account>> @@ t :> <<tabs>>
=============================================================================
