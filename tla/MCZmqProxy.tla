----------------------------- MODULE MCZmqProxy -----------------------------
(***************************************************************************)
(* A small instance of ZmqProxy for TLC.                                   *)
(***************************************************************************)
EXTENDS ZmqProxy

Frame(src, dst, size, scoped, doomed) ==
  [src |-> src, dst |-> dst, size |-> size, scoped |-> scoped, doomed |-> doomed]

\* Node 2 is the half-duplex one.
Up     == Frame(2, 1, "ok", TRUE, FALSE)
Down   == Frame(1, 2, "ok", TRUE, FALSE)
Doomed == Frame(1, 2, "ok", TRUE, TRUE)
Beside == Frame(1, 3, "ok", FALSE, FALSE)
Runt   == Frame(1, 2, "runt", FALSE, FALSE)
Big    == Frame(1, 2, "big", FALSE, FALSE)

Option(match_dport, hdx, delay, corr, capture, frames) ==
  [match_dport |-> match_dport, hdx |-> hdx, delay |-> delay, corr |-> corr,
   capture |-> capture, frames |-> frames, mtu |-> 200, overhead |-> 4]

MCOptions ==
  {Option(13, FALSE, FALSE, FALSE, TRUE, {Down, Doomed, Runt, Big}),
   Option(13, FALSE, FALSE, TRUE, FALSE, {Down, Doomed}),
   Option(13, FALSE, TRUE, FALSE, FALSE, {Down, Doomed}),
   Option(13, TRUE, FALSE, FALSE, FALSE, {Up, Down}),
   Option(-1, TRUE, TRUE, FALSE, FALSE, {Up}),
   Option(-1, FALSE, FALSE, FALSE, TRUE, {Runt, Big}),
   Option(64, FALSE, FALSE, FALSE, FALSE, {Down})}
=============================================================================
