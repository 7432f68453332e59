---------------------------- MODULE VirtualSplit ----------------------------
(***************************************************************************)
(* The frame of a virtual segment and its shares: task_loop sums up the    *)
(* lengths of the segment's members, renders one frame of the sum, and     *)
(* hands it out, member after member, by a second computation of the       *)
(* lengths (main/wled_effects.cpp:2073-2196).  Lengths are in pixels.      *)
(***************************************************************************)
EXTENDS Integers, Sequences

CONSTANTS
  Leds,     (* LED count of each device and strip                           *)
  Width,    (* lengths are counted modulo this: 2^16                        *)
  Default,  (* the length rendered for none: 60                             *)
  NULL

Lesser(a, b) == IF a < b THEN a ELSE b

(* The strip a member draws on, among the sequence of strips: the one with *)
(* its id or, if that is gone, the one at its index.                       *)
StripOf(m, strips) ==
  IF \E i \in DOMAIN strips : strips[i] = m.id THEN m.id
  ELSE IF m.id # NULL /\ m.index < Len(strips) THEN strips[m.index + 1] ELSE NULL

(* The part of the strip the member has; no strip, no part.                *)
PartStart(m, strips) == Lesser(m.start, Leds[StripOf(m, strips)])
PartLength(m, strips) ==
  LET s == StripOf(m, strips)
      room == Leds[s] - PartStart(m, strips)
  IN  IF s = NULL THEN 0
      ELSE IF m.length > 0 THEN Lesser(m.length, room) ELSE room

(* What the first pass adds for a member.                                  *)
(* Mutation: a member that leaves its length open is not counted.          *)
CountedIfGiven(m, strips, devs) ==
  CASE m.type = "physical" -> IF m.length = 0 THEN 0 ELSE PartLength(m, strips)
    [] m.type = "wled"     -> IF m.id \in devs THEN Leds[m.id] ELSE 0
    [] OTHER               -> 0

Counted(m, strips, devs) ==
  CASE m.type = "physical" -> PartLength(m, strips)
    [] m.type = "wled"     -> IF m.id \in devs THEN Leds[m.id] ELSE 0
    [] OTHER               -> 0

Total(members, strips, devs) ==
  LET sum[i \in 0..Len(members)] ==
        IF i = 0 THEN 0 ELSE sum[i - 1] + Counted(members[i], strips, devs)
  IN  sum[Len(members)]

(* The pixels that are rendered; none are if the total is zero.            *)
FrameLength(total) ==
  IF total = 0 THEN 0
  ELSE IF total % Width = 0 THEN Default ELSE total % Width

(* What the second pass hands to a member while there is enough.           *)
Wished(m, strips, devs) ==
  CASE m.type = "physical" -> PartLength(m, strips)
    [] m.type = "wled" /\ m.length = 0 -> IF m.id \in devs THEN Leds[m.id] ELSE 0
    [] OTHER               -> m.length

(* Where each member's share ends; it begins where the one before ends,    *)
(* and nothing is left behind the end of the frame.                        *)
Cuts(members, strips, devs) ==
  LET size == FrameLength(Total(members, strips, devs))
      cut[i \in 0..Len(members)] ==
        IF i = 0 THEN 0
        ELSE Lesser(size, cut[i - 1] + Wished(members[i], strips, devs))
  IN  cut

(* The members that are sent or drawn their share.                         *)
Reached(members, strips, devs) ==
  LET cut == Cuts(members, strips, devs)
  IN  {i \in DOMAIN members :
         /\ cut[i] > cut[i - 1]
         /\ \/ members[i].type = "wled" /\ members[i].id \in devs
            \/ members[i].type = "physical"}
=============================================================================
