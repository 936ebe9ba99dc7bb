------------------------------- MODULE Service -------------------------------
(***************************************************************************)
(* What the gateway promises the NABU, without TFTP, callbacks or buffers: *)
(* one request at a time, its answer sent bit by bit and never taken back, *)
(* and one segment kept at hand for the requests that follow.              *)
(***************************************************************************)
EXTENDS Integers, Sequences

CONSTANTS
  Requests, NoRequest,
  Proper,           \* the requests an answer is promised for
  Promise(_, _),    \* the whole answers to a request, by the segment at hand
  AtOnce(_)         \* whether the NABU may be sent this without a fetch

NoSegment == 0

VARIABLES
  serving,     \* a request is being served
  asked,       \* the last request
  sent,        \* what the NABU has been sent since
  held         \* the segment at hand, or the one being fetched

service_vars == <<serving, asked, sent, held>>

Prefix(s, t) == Len(s) <= Len(t) /\ \A k \in 1 .. Len(s) : t[k] = s[k]

ServiceStart == serving = FALSE /\ asked = NoRequest /\ sent = <<>> /\ held = NoSegment

\* The answer is at hand, and sent.
AskNow ==
  /\ ~serving /\ serving' = FALSE /\ asked' \in Requests /\ AtOnce(sent')
  /\ UNCHANGED held

\* The answer must be fetched: the whole segment for its first packet.
AskFetch ==
  /\ ~serving /\ serving' = TRUE /\ asked' \in Requests /\ sent' = <<>>
  /\ held # asked'.seg
  /\ held' = IF asked'.pkt = 0 THEN asked'.seg ELSE NoSegment

\* More of the answer is sent, or all of it; or the segment could not be had.
Go == serving /\ UNCHANGED asked /\ Prefix(sent, sent') /\ held' \in {held, NoSegment}
SendMore == Go /\ serving' = TRUE
SendLast == Go /\ serving' = FALSE

\* The power goes, and comes back.
Restart == serving' = FALSE /\ asked' = NoRequest /\ sent' = <<>> /\ held' = NoSegment

TurnsNext == AskNow \/ AskFetch \/ SendMore \/ SendLast \/ Restart

\* What has been sent is the answer, or so far the beginning of it.
Kept ==
  asked \in Proper =>
    \E answer \in Promise(asked, held) :
      IF serving THEN Prefix(sent, answer) ELSE sent = answer

TurnsSpec == ServiceStart /\ [][TurnsNext]_service_vars

\* The safety part of the promise, and all of it.
PromiseSpec == ServiceStart /\ [][TurnsNext /\ Kept']_service_vars
ServiceSpec == PromiseSpec /\ (serving ~> ~serving)
=============================================================================
