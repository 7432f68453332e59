----------------------------- MODULE MCLedEngine -----------------------------
(* Configurations of up to three strips: a pin that may not be used, one     *)
(* output twice, strips of other lengths, another driver, and one, two or    *)
(* four outputs in parallel, on a chip with three channels.                  *)
EXTENDS LedEngine

S(pin, leds) == [pin |-> pin, leds |-> leds]
C(strips, parallel, rmt) == [strips |-> strips, parallel |-> parallel, rmt |-> rmt]
MCConfigs == {
    C(<<S("a", 1), S("b", 2)>>, 2, TRUE),
    C(<<S("a", 2), S("b", 1), S("c", 1)>>, 4, TRUE),
    C(<<S("a", 2), S("a", 2)>>, 2, TRUE),
    C(<<S("b", 2), S("x", 1), S("a", 1)>>, 1, TRUE),
    C(<<S("a", 1), S("b", 1)>>, 2, FALSE)}
MCAllowed == {"a", "b", "c"}
=============================================================================
