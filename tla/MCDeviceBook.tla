---------------------------- MODULE MCDeviceBook ----------------------------
(* The lists a request may bring: one that has a lamp twice, one that has     *)
(* the lamps where they may no longer be, and one with an address twice.     *)
EXTENDS DeviceBook

CONSTANTS l1, l2, a1, a2

SentLists ==
  {<<Device(l1, a1), Device(l1, a2)>>, <<Device(l1, a2), Device(l2, a1)>>,
   <<Device(a1, a1), Device(l1, a1)>>}
=============================================================================
