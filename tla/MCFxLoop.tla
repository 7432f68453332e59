------------------------------ MODULE MCFxLoop ------------------------------
(* Small instances of FxLoop: two devices of one length, three strips, one *)
(* of them longer, two effects, two looks.  The cache holds four frames.   *)
(* Lengths are counted modulo four.                                        *)
EXTENDS FxLoop

MCDevs == {"d1", "d2"}
MCSegs == {"s1", "s2", "s3"}
MCLeds == [x \in MCDevs \cup MCSegs |-> IF x = "s2" THEN 2 ELSE 1]

Binding(d, on, effect, look) ==
  [dev |-> d, on |-> on, effect |-> effect, look |-> look]
Choice(effect, audio, look) == [effect |-> effect, audio |-> audio, look |-> look]

(* Two strips that differ in their link to the audio only, or one of them  *)
(* without an effect and one without an assignment.                        *)
Linked == "s1" :> Choice("fire", FALSE, "red") @@ "s2" :> Choice("wave", FALSE, "plain")
            @@ "s3" :> Choice("fire", TRUE, "plain")
Unset  == "s1" :> Choice("fire", FALSE, "plain") @@ "s2" :> NULL
            @@ "s3" :> Choice("none", FALSE, "plain")

Setup(bind, devs, segs, virt, assign) ==
  [bind |-> bind, devs |-> devs, segs |-> segs, virt |-> virt, assign |-> assign]

Fire1 == Binding("d1", TRUE, "fire", "plain")
Wave2 == Binding("d2", TRUE, "wave", "plain")
Off1  == Binding("d1", FALSE, "fire", "plain")
Bare1 == Binding("d1", TRUE, "none", "plain")

(* Members of virtual segments: with and without a length, on a part of a  *)
(* strip, on a strip that is gone or a device that is not known.           *)
Member(type, id, start, length) ==
  [type |-> type, id |-> id, index |-> 0, start |-> start, length |-> length]
V(on, members) == [on |-> on, members |-> members]
Split == V(TRUE, <<Member("wled", "d2", 0, 0), Member("physical", "s2", 1, 0),
                   Member("physical", "s9", 0, 1)>>)
Greedy == V(TRUE, <<Member("wled", "d1", 0, 2), Member("physical", "s1", 0, 0)>>)
Long == V(TRUE, <<Member("physical", "s2", 0, 2), Member("wled", "d1", 0, 1),
                  Member("wled", "d3", 0, 0), Member("physical", "s1", 3, 5),
                  Member("wled", "d2", 0, 1)>>)
Off == V(FALSE, <<Member("wled", "d1", 0, 0)>>)

(* Bindings, the devices and the only strip come and go, and so does a     *)
(* virtual segment with a device that may be bound as well.                *)
LiveConfigs ==
  LET Both == {"d1", "d2"}
  IN  {Setup(<<>>, Both, <<>>, {}, Unset), Setup(<<>>, Both, <<"s1">>, {}, Unset),
       Setup(<<Fire1>>, Both, <<>>, {}, Unset), Setup(<<Fire1>>, {}, <<"s1">>, {}, Unset),
       Setup(<<Off1, Wave2>>, Both, <<"s1">>, {}, Unset),
       Setup(<<Wave2>>, Both, <<>>, {Greedy}, Unset)}

(* Everything at once, also a binding without effect.                      *)
RichConfigs ==
  LET Both == {"d1", "d2"}
  IN  {Setup(<<>>, Both, <<>>, {}, Unset),
       Setup(<<Fire1, Wave2>>, Both, <<"s1", "s2", "s3">>, {Split, Greedy, Off}, Linked),
       Setup(<<Fire1, Wave2>>, Both, <<"s3", "s2", "s1">>, {Long}, Linked),
       Setup(<<Bare1, Wave2>>, Both, <<"s1", "s2", "s3">>, {Split}, Unset),
       Setup(<<Bare1, Wave2>>, Both, <<>>, {}, Unset),
       Setup(<<>>, Both, <<>>, {Split}, Unset)}
=============================================================================
