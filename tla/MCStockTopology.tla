-------------------------- MODULE MCStockTopology --------------------------
(***************************************************************************)
(* Files of up to six cells: enough for the three routes in two or three   *)
(* blocks with a cell of private data, and one duplicate.  The headers     *)
(* promise one payload and one count, right or wrong.                      *)
(***************************************************************************)
EXTENDS StockTopology

MCHeaders ==
  [type : {"pcm", "link"}, count : 0..3, payload : 1..3]
    \cup [type : {"other"}, count : {0, 2}, payload : {0, 2}]

Caps(rate, channels, formats) ==
  [rate_min |-> 8000, rate_max |-> rate, channels_min |-> 2, channels_max |-> channels,
   formats |-> formats]

Pcm(id, playback, caps, priv) ==
  [pcm_id |-> id, playback |-> playback, capture |-> ~playback,
   caps |-> [d \in 0..1 |-> caps], priv |-> priv]

MCPcms ==
  {Pcm(0, TRUE, Caps(48000, 2, {S16}), 0), Pcm(0, TRUE, Caps(48000, 2, {S32}), 0),
   Pcm(0, FALSE, Caps(48000, 2, {S16}), 0),
   Pcm(99, FALSE, Caps(96000, 4, {S16, S32}), 0), Pcm(99, FALSE, Caps(48000, 2, {S32}), 1),
   Pcm(99, FALSE, Caps(96000, 4, {S16, S32}), 1),
   Pcm(5, TRUE, Caps(44100, 2, {S16}), 1)}

Link(codec, num, ids, amplifiers, priv) ==
  [codec |-> codec, default |-> 1, num |-> num, priv |-> priv,
   hw |-> [j \in 1..2 |-> [id |-> ids[j], amplifiers |-> amplifiers[j]]]]

MCLinks ==
  {Link(TRUE, 2, <<1, 2>>, <<TRUE, FALSE>>, 0), Link(TRUE, 1, <<1, 1>>, <<TRUE, TRUE>>, 1),
   Link(TRUE, 2, <<1, 1>>, <<TRUE, TRUE>>, 0), Link(TRUE, 1, <<1, 2>>, <<FALSE, TRUE>>, 0),
   Link(TRUE, 1, <<2, 1>>, <<TRUE, TRUE>>, 0), Link(TRUE, 3, <<2, 2>>, <<TRUE, TRUE>>, 0),
   Link(FALSE, 1, <<1, 2>>, <<FALSE, FALSE>>, 0)}
=============================================================================
