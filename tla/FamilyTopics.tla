---------------------------- MODULE FamilyTopics ----------------------------
(***************************************************************************)
(* The topics the daemon receives and how it treats each of them.  An event  *)
(* is its topic: bodies and envelopes never decide how it is scheduled.      *)
(*                                                                         *)
(*   "distress"  wm.family.distress       "message"  wm.family.message      *)
(*   "silence"   wm.presence.silence      "fail"     wm.health.hearing.fail *)
(*   "ok"        wm.health.hearing.ok                                        *)
(*   "ack"       the daemon's own wm.family.ack, echoed by the bus           *)
(*   "other"     any other topic under the three subscribed prefixes         *)
(***************************************************************************)
EXTENDS Naturals, Sequences

\* The topics that travel through the normal channel.
NormalTopics == {"message", "silence", "fail", "ok"}

\* The topics the subscriber turns into an EventKind; the rest it skips.
RoutedTopics == {"distress"} \cup NormalTopics

Topics == RoutedTopics \cup {"ack", "other"}

\* The topics whose handler publishes a wm.family.ack.
AckedTopics == {"distress", "message"}

\* The topics whose handler runs the retry ladder; the others try once.
LadderTopics == {"distress", "fail"}

\* The topics whose handler may decide to send nothing: the nudge is off or
\* debounced, the alert is suppressed, there is nothing to recover from.
GatedTopics == {"silence", "fail", "ok"}

\* Two events compete in the same channel.
SameLane(k, l) == (k = "distress") <=> (l = "distress")
=============================================================================
