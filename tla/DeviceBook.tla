----------------------------- MODULE DeviceBook -----------------------------
(***************************************************************************)
(* The list of WLED devices: the copy in AppConfig with the bindings that  *)
(* name its devices, the copy in NVS, and the list of discovery's own      *)
(* (s_status).  The discovery task (wled_discovery.cpp) and the requests   *)
(* of the web server (web_setup.cpp) change and save them, each saving in  *)
(* two steps: the configuration is encoded, then the text is written.      *)
(*                                                                         *)
(* A device is [id, addr]: the id is the lamp's MAC (a lamp stands for its *)
(* own) where _wled announces one, else the address.  LED counts, names    *)
(* and switches are left out: they may make a scan save that has nothing   *)
(* else to save, and a user may give a device the name of another.  An     *)
(* entry of s_status is "live" if a scan has seen it, at its address.      *)
(* update_config, which hands devices and bindings to the runtime after a  *)
(* request, is modelled in FxLoop.                                         *)
(***************************************************************************)
EXTENDS Naturals, Sequences, FiniteSets, SequencesExt

CONSTANTS
  Lamps,   (* WLED devices of the network                                   *)
  Addrs,   (* its addresses                                                 *)
  MaxOps,  (* bound on requests, moves and scans that miss lamps            *)
  MaxCuts, (* bound on restarts                                             *)
  MaxBind, (* bound on bindings                                             *)
  MaxStored, (* bound on devices stored at the start                        *)
  Sent,    (* the lists of devices a request to apply may bring             *)
  NULL

ASSUME BookAssumption ==
  /\ Lamps \cap Addrs = {} /\ NULL \notin Lamps \cup Addrs \cup {"apply"}
  /\ IsFiniteSet(Lamps)
  /\ {MaxOps, MaxCuts, MaxBind, MaxStored} \subseteq Nat
  /\ Sent \subseteq Seq([id : Lamps \cup Addrs, addr : Addrs])

VARIABLES
  where,   (* the address of each lamp; NULL: off                           *)
  ops,     (* how many requests, moves and such scans there have been       *)
  cuts,    (* how many restarts                                             *)
  devs,    (* wled_devices                                                  *)
  bind,    (* the device ids of wled_effects.bindings                       *)
  status,  (* s_status                                                      *)
  stored,  (* what is in NVS: [devs, bind]                                  *)
  web,     (* where the web server's task is, and its request: [at, op, id] *)
  scan,    (* where the discovery task is                                   *)
  found,   (* what its queries have found                                   *)
  blob     (* encoded configurations of both tasks, not yet written         *)

vars == <<where, ops, cuts, devs, bind, status, stored, web, scan, found, blob>>
book == <<devs, bind>>

Ids == Lamps \cup Addrs
Bindings == {bs \in SUBSET Ids : Cardinality(bs) <= MaxBind}
Config(ds, bs) == [devs |-> ds, bind |-> bs]
Device(i, a) == [id |-> i, addr |-> a]
Devices == [id : Ids, addr : Addrs]
Entries == [id : Ids, addr : Addrs, live : BOOLEAN]
Seen(i, a) == [id |-> i, addr |-> a, live |-> TRUE]
Unseen(i, a) == [id |-> i, addr |-> a, live |-> FALSE]
NoRequest == [at |-> "idle", op |-> NULL, id |-> NULL]

(* The first index of s whose element passes Test; 0 if there is none.     *)
FirstIndex(s, Test(_)) ==
  LET I == {i \in 1..Len(s) : Test(s[i])}
  IN  IF I = {} THEN 0 ELSE CHOOSE i \in I : \A j \in I : i <= j

(* The elements of s at the indices I.                                     *)
Kept(s, I) ==
  LET keep[n \in 0..Len(s)] ==
        IF n = 0 THEN <<>>
        ELSE IF n \in I THEN Append(keep[n - 1], s[n]) ELSE keep[n - 1]
  IN  keep[Len(s)]
-----------------------------------------------------------------------------
(* What reading a configuration makes of it (the end of decode_json): of   *)
(* the devices with one address the first stays, and bindings must name a  *)
(* device by its id or its address.                                        *)
Deduped(ds) ==
  Kept(ds, {i \in 1..Len(ds) : \A j \in 1..(i - 1) : ds[j].addr # ds[i].addr})

Named(ds) == UNION {{d.id, d.addr} : d \in ToSet(ds)}

(* Mutation: the bindings are pruned before the devices are deduplicated.  *)
DecodedEarly(c) == [devs |-> Deduped(c.devs), bind |-> c.bind \cap Named(c.devs)]

Decoded(c) ==
  LET ds == Deduped(c.devs) IN [devs |-> ds, bind |-> c.bind \cap Named(ds)]

(* One found device: upsert_config_locked and the first half of            *)
(* merge_status_locked, where an entry may match by its address, too.      *)

(* Mutation: a device that has a new address is taken for a new device.    *)
UpsertByAddress(ds, f) ==
  IF FirstIndex(ds, LAMBDA d : d.addr = f.addr) = 0
  THEN Append(ds, Device(f.id, f.addr)) ELSE ds

Upsert(ds, f) ==
  LET i == FirstIndex(ds, LAMBDA d : d.id = f.id \/ d.addr = f.addr)
  IN  IF i = 0 THEN Append(ds, Device(f.id, f.addr))
               ELSE [ds EXCEPT ![i].addr = f.addr]

(* Mutation: a known entry is left as it is.                               *)
NoteStale(st, f) ==
  IF FirstIndex(st, LAMBDA e : e.id = f.id \/ e.addr = f.addr) = 0
  THEN Append(st, f) ELSE st

Note(st, f) ==
  LET i == FirstIndex(st, LAMBDA e : e.id = f.id \/ e.addr = f.addr)
  IN  IF i = 0 THEN Append(st, f) ELSE [st EXCEPT ![i] = f]

(* Of several entries with one address the last stays.                     *)
LastOnly(st) ==
  Kept(st, {i \in 1..Len(st) :
              \A j \in (i + 1)..Len(st) : st[j].addr # st[i].addr})

Book(c) == [i \in 1..Len(c) |-> Unseen(c[i].id, c[i].addr)]
-----------------------------------------------------------------------------
(* The device has just started, with what was stored: anything that a few  *)
(* devices can make of a configuration.                                    *)
Stored ==
  LET Ds == {ds \in BoundedSeq(Devices, MaxStored) :
               \A i, j \in DOMAIN ds : i # j => ds[i].id # ds[j].id}
  IN  {Decoded(Config(ds, bs)) : ds \in Ds, bs \in Bindings}

Init ==
  /\ where \in [Lamps -> Addrs \cup {NULL}]
  /\ \A l, m \in Lamps : l # m /\ where[l] # NULL => where[l] # where[m]
  /\ ops = 0 /\ cuts = 0
  /\ stored \in Stored
  /\ devs = stored.devs /\ bind = stored.bind /\ status = Book(devs)
  /\ web = NoRequest
  /\ scan = "query" /\ found = <<>>
  /\ blob = [t \in {"web", "scan"} |-> NULL]

Spend == ops < MaxOps /\ ops' = ops + 1

(* Lamps are switched off and on and get other addresses.                  *)
Move ==
  /\ Spend
  /\ \E l \in Lamps, a \in Addrs \cup {NULL} :
       /\ a # NULL => \A m \in Lamps : where[m] # a
       /\ where' = [where EXCEPT ![l] = a]
  /\ UNCHANGED <<cuts, book, status, stored, web, scan, found, blob>>

(* app_main: config_load, then wled_discovery_start.                       *)
Boot ==
  /\ \E c \in {Decoded(stored)} :
       devs' = c.devs /\ bind' = c.bind /\ status' = Book(c.devs)
  /\ web' = NoRequest
  /\ scan' = "query" /\ found' = <<>>
  /\ blob' = [t \in {"web", "scan"} |-> NULL]

Restart ==
  /\ cuts < MaxCuts /\ cuts' = cuts + 1 /\ Boot
  /\ UNCHANGED <<where, ops, stored>>
-----------------------------------------------------------------------------
(* The web server's requests.  Each changes the configuration, encodes it  *)
(* (config_save), and then writes it.                                      *)
Request(op, i, ds, bs) ==
  /\ web.at = "idle" /\ Spend
  /\ devs' = ds /\ bind' = bs
  /\ web' = [at |-> "write", op |-> op, id |-> i]
  /\ blob' = [blob EXCEPT !["web"] = Config(ds, bs)]
  /\ UNCHANGED <<where, cuts, status, stored, scan, found>>

(* api_wled_add: the first device with the new id, address or name gets    *)
(* the address; a new device has its address as id.                        *)
Add(a) ==
  LET i == FirstIndex(devs, LAMBDA d : d.id = a \/ d.addr = a)
  IN  \/ i = 0 /\ Request("add", a, Append(devs, Device(a, a)), bind)
      \/ \E j \in 1..Len(devs) :
           /\ i # 0 => j <= i
           /\ Request("add", a, [devs EXCEPT ![j].addr = a], bind)

(* api_wled_delete, with an id, an address or both, which may be those of   *)
(* different devices: the page sends what discovery's list has, and that   *)
(* may have a lamp's address for its id.  A device goes by either, its     *)
(* binding by the texts of the request only.                               *)
Without(i, a) ==
  Kept(devs, {n \in 1..Len(devs) : devs[n].id \notin {i, a} /\ devs[n].addr # a})

Delete(i, a) ==
  /\ Without(i, a) # devs
  /\ Request("delete", NULL, Without(i, a), bind \ {i, a})

(* api_wled_effects_save, api_save_led: the list of bindings is replaced,  *)
(* perhaps by one with devices that are gone by now, and, if the request   *)
(* brings one, the list of devices.                                        *)
Apply(ds, bs) ==
  \E c \in {Decoded(Config(ds, bs))} : Request("apply", NULL, c.devs, c.bind)

(* api_factory_reset.                                                      *)
Reset == Request("reset", NULL, <<>>, {})

(* A failure ends the request.                                             *)
WebFail ==
  /\ web.at = "write"
  /\ blob' = [blob EXCEPT !["web"] = NULL]
  /\ web' = NoRequest
  /\ UNCHANGED <<where, ops, cuts, book, status, stored, scan, found>>

WebWrite ==
  /\ web.at = "write"
  /\ stored' = blob["web"]
  /\ web' = [web EXCEPT !.at = "finish"]
  /\ blob' = [blob EXCEPT !["web"] = NULL]
  /\ UNCHANGED <<where, ops, cuts, book, status, scan, found>>

(* wled_discovery_register_manual, or the reset's restart.                 *)
Registered ==
  LET i == FirstIndex(status, LAMBDA e : e.id = web.id)
      e == Unseen(web.id, web.id)
  IN  IF i = 0 THEN Append(status, e) ELSE [status EXCEPT ![i] = e]

WebFinish ==
  /\ web.at = "finish"
  /\ \/ web.op = "reset" /\ Boot
     \/ /\ web.op = "add"
        /\ status' = Registered
        /\ web' = NoRequest
        /\ UNCHANGED <<book, scan, found, blob>>
     \/ /\ web.op \notin {"add", "reset"}
        /\ web' = NoRequest
        /\ UNCHANGED <<book, status, scan, found, blob>>
  /\ UNCHANGED <<where, ops, cuts, stored>>
-----------------------------------------------------------------------------
(* wled_scan_once.  Lamps answer the _wled query with their MAC, the _http *)
(* query without, in any order; some may be missed.                        *)
Orders(S) == IF S = {} THEN {<<>>} ELSE SetToSeqs(S)
On == {l \in Lamps : where[l] # NULL}

Query ==
  /\ scan = "query"
  /\ \E W \in SUBSET On, H \in SUBSET On :
       /\ \/ W = On /\ H = On /\ UNCHANGED ops
          \/ (W # On \/ H # On) /\ Spend
       /\ \E p \in Orders(On) :
            LET w == Kept(p, {i \in DOMAIN p : p[i] \in W})
                h == Kept(p, {i \in DOMAIN p : p[i] \in H})
            IN  found' = [i \in DOMAIN w |-> Seen(w[i], where[w[i]])]
                           \o [i \in DOMAIN h |-> Seen(where[h[i]], where[h[i]])]
  /\ scan' = "merge"
  /\ UNCHANGED <<where, cuts, book, status, stored, web, blob>>

(* merge_status_locked, then config_save if the configuration has changed. *)
Known(ds, fs) ==
  LET known[n \in 0..Len(fs)] ==
        IF n = 0 THEN ds
        ELSE [d \in Seq(Devices) |-> Upsert(d, fs[n])][known[n - 1]]
  IN  known[Len(fs)]

Noted(st, fs) ==
  LET noted[n \in 0..Len(fs)] ==
        IF n = 0 THEN st
        ELSE [s \in Seq(Entries) |-> Note(s, fs[n])][noted[n - 1]]
  IN  noted[Len(fs)]

Merge ==
  /\ scan = "merge"
  /\ devs' = Known(devs, found)
  /\ \E st \in {Noted(status, found)} : status' = LastOnly(st)
  /\ found' = <<>>
  /\ \/ devs' = devs /\ scan' = "query" /\ UNCHANGED blob
     \/ scan' = "write" /\ blob' = [blob EXCEPT !["scan"] = Config(devs', bind)]
  /\ UNCHANGED <<where, ops, cuts, bind, stored, web>>

ScanWrite ==
  /\ scan = "write"
  /\ stored' \in {blob["scan"], stored}
  /\ blob' = [blob EXCEPT !["scan"] = NULL]
  /\ scan' = "query"
  /\ UNCHANGED <<where, ops, cuts, book, status, web, found>>

Scan == Query \/ Merge \/ ScanWrite
Save == WebFail \/ WebWrite \/ WebFinish
User ==
  \/ \E a \in Addrs : Add(a)
  \/ \E i, a \in Ids \cup {NULL} : Delete(i, a)
  \/ \E ds \in Sent \cup {devs}, bs \in Bindings : Apply(ds, bs)
  \/ Reset
Next == Scan \/ Save \/ User \/ Move \/ Restart

Spec == Init /\ [][Next]_vars /\ WF_vars(Scan)
-----------------------------------------------------------------------------
(* The id of each device is its own, in the configuration, in NVS and in   *)
(* what is about to be written: however scans, requests, moves and         *)
(* restarts follow each other, only a list that a request brings can have  *)
(* an id twice, as decode_json compares addresses (config.cpp:106-130).    *)
Doubled(ds) == \E i, j \in 1..Len(ds) : i # j /\ ds[i].id = ds[j].id
Clean ==
  /\ ~Doubled(devs) /\ ~Doubled(stored.devs)
  /\ web.at = "write" => ~Doubled(blob["web"].devs)
  /\ scan = "write" => ~Doubled(blob["scan"].devs)
OneEntry ==
  [][Clean => \/ Clean'
              \/ \E ds \in Sent, bs \in Bindings : Doubled(ds) /\ Apply(ds, bs)]_vars

(* A binding that names a device by its id loses the device only to a      *)
(* request that deletes it by its address, with another id or with none;   *)
(* and what decode_json has read has no binding without a device           *)
(* (config.cpp:56-84, web_setup.cpp:824-870).                              *)
IdsOf(ds) == {d.id : d \in ToSet(ds)}
Unnamed(i, a) == \E n \in 1..Len(devs) : devs[n].addr = a /\ devs[n].id \notin {i, a}
Read == web.at = "idle" /\ web'.op = "apply"
NoOrphans ==
  [][/\ \/ bind \cap bind' \cap IdsOf(devs) \subseteq Named(devs')
        \/ \E i, a \in Ids \cup {NULL} : Unnamed(i, a) /\ Delete(i, a)
     /\ Read => bind' \subseteq Named(devs')]_vars

(* When the network has come to rest, the list has the addresses of all    *)
(* lamps that are on, and discovery shows each of them as seen: whatever   *)
(* was added, deleted, moved, lost by a crash or saved in a bad moment.    *)
Settled ==
  \A l \in On : /\ \E d \in ToSet(devs) : d.addr = where[l]
                /\ \E e \in ToSet(status) : e.addr = where[l] /\ e.live
Settles == <>[]Settled
=============================================================================
