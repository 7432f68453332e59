------------------------------- MODULE FxLoop -------------------------------
(***************************************************************************)
(* The render loop of the effects runtime (WledEffectsRuntime::task_loop): *)
(* which WLED devices it drives over DDP and releases, and which frame     *)
(* each device and each local strip gets.                                  *)
(*                                                                         *)
(* The loop works on a snapshot of the configuration; the HTTP handlers    *)
(* change the configuration and then hand the bindings and devices to the  *)
(* runtime (update_config).  A frame is abstracted to what it was rendered *)
(* from: the effect, the LED count and the look (colours, palette,         *)
(* brightness, speed).  A device is reached at one address, so the address *)
(* stands for the device.                                                  *)
(***************************************************************************)
EXTENDS Naturals, Sequences, FiniteSets, SequencesExt

CONSTANTS
  Devs, Segs,     (* WLED devices and local strips                          *)
  Leds,           (* LED count of each                                      *)
  Configs,        (* the configurations a user may save                     *)
  NoEffect,       (* no effect chosen                                       *)
  CacheMax,       (* most frames cached (10 in the code)                    *)
  ClearAbove,     (* a fuller cache is cleared now and then (5)             *)
  ClearPeriod,    (* ... every so many frames (10)                          *)
  CleanupPeriod,  (* frames between two cleanups (300)                      *)
  NetFails,       (* sending to a device may fail                           *)
  Width, Default, (* see VirtualSplit                                       *)
  NULL

INSTANCE VirtualSplit

(* What a configuration consists of.                                       *)
Bindings == [dev : STRING, on : BOOLEAN, effect : STRING, look : STRING]
Chosen   == [effect : STRING, audio : BOOLEAN, look : STRING]
Members  == [type : STRING, id : {NULL} \cup STRING, index : Nat, start : Nat,
             length : Nat]
Segments == [on : BOOLEAN, members : Seq(Members)]

ASSUME ConfigAssumption ==
  Configs \subseteq [bind : Seq(Bindings), devs : SUBSET Devs, segs : Seq(Segs),
                    assign : [Segs -> Chosen \cup {NULL}], virt : SUBSET Segments]
ASSUME LengthAssumption ==
  Leds \in [Devs \cup Segs -> Nat] /\ Width \in Nat \ {0} /\ Default \in Nat
ASSUME CacheAssumption  == CacheMax \in Nat /\ ClearAbove \in 0..CacheMax
ASSUME PeriodAssumption == {ClearPeriod, CleanupPeriod} \subseteq Nat \ {0}

VARIABLES
  cfg,     (* AppConfig: [bind, devs, segs, assign, virt]; segs a sequence of*)
           (* strips, assign the choice for each, or NULL, virt a set of     *)
           (* virtual segments [on, members]                                 *)
  fx,      (* effects_ and devices_, the runtime's copy: [bind, devs]        *)
  saving,  (* a handler has changed cfg and not yet called update_config     *)
  pc,      (* where the loop is                                              *)
  snap,    (* the loop's snapshot: [bind, devs, segs, virt]                  *)
  idx,     (* frame_idx, modulo the two periods                              *)
  next,    (* the next binding to render                                     *)
  had,     (* had_enabled_bindings                                           *)
  active,  (* active_ddp_devices_                                            *)
  cache,   (* frames cached for the current frame_idx                        *)
  old,     (* how many of earlier frames are still in frame_cache_           *)
  live,    (* devices in live mode, that is, showing DDP data                *)
  loose,   (* those whose release failed or that a virtual segment drove     *)
  sent,    (* the last frame sent in this round: [dev, frame, want]          *)
  shown    (* per strip, the last frame of an assignment: [frame, want]      *)

vars == <<cfg, fx, saving, pc, snap, idx, next, had, active, cache, old, live,
          loose, sent, shown>>

Nothing == [dev |-> NULL, frame |-> NULL, want |-> NULL]
Blank   == [frame |-> NULL, want |-> NULL]

Enabled(b) == b.on
Resolved(b, devs) == b.dev \in devs
Bound(bind, devs) ==
  {b.dev : b \in {c \in ToSet(bind) : Enabled(c) /\ Resolved(c, devs)}}

-----------------------------------------------------------------------------
Init ==
  /\ cfg \in Configs
  /\ fx = [bind |-> cfg.bind, devs |-> cfg.devs]
  /\ saving = FALSE
  /\ pc = "snapshot"
  /\ snap = [bind |-> <<>>, devs |-> {}, segs |-> <<>>, virt |-> {}]
  /\ idx = 0
  /\ next = 1
  /\ had = FALSE
  /\ active = {}
  /\ cache = {}
  /\ old = 0
  /\ live = {}
  /\ loose = {}
  /\ sent = Nothing
  /\ shown = [s \in Segs |-> Blank]

-----------------------------------------------------------------------------
(* The handlers: the configuration changes (config_apply_json and others), *)
(* and after it has been stored the runtime gets its copy.                 *)

Save(c) ==
  /\ ~saving
  /\ c # cfg
  /\ cfg' = c
  /\ saving' = TRUE
  /\ UNCHANGED <<fx, pc, snap, idx, next, had, active, cache, old, live, loose,
                 sent, shown>>

UpdateConfig ==
  /\ saving
  /\ fx' = [bind |-> cfg.bind, devs |-> cfg.devs]
  /\ saving' = FALSE
  /\ UNCHANGED <<cfg, pc, snap, idx, next, had, active, cache, old, live, loose,
                 sent, shown>>

(* It could not be stored, and the runtime is not told; nor is it of what  *)
(* discovery changes.                                                      *)
SaveFail ==
  /\ saving
  /\ saving' = FALSE
  /\ UNCHANGED <<cfg, fx, pc, snap, idx, next, had, active, cache, old, live, loose,
                 sent, shown>>

-----------------------------------------------------------------------------
(* The loop.                                                               *)

(* Take a snapshot; clear the cache from time to time.                     *)
Snapshot ==
  /\ pc = "snapshot"
  /\ snap' = [bind |-> fx.bind, devs |-> fx.devs,
              segs |-> cfg.segs, virt |-> cfg.virt]
  /\ old' = IF idx % ClearPeriod = 0 /\ old > ClearAbove THEN 0 ELSE old
  /\ sent' = Nothing
  /\ pc' = "gate"
  /\ UNCHANGED <<cfg, fx, saving, idx, next, had, active, cache, live, loose,
                 shown>>

Busy ==
  \/ snap.bind # <<>> /\ snap.devs # {}
  \/ snap.segs # <<>>
  \/ snap.virt # {}

(* Nothing to render: sleep and start over.                                *)
Rest ==
  /\ pc = "gate"
  /\ ~Busy
  /\ pc' = "snapshot"
  /\ UNCHANGED <<cfg, fx, saving, snap, idx, next, had, active, cache, old,
                 live, loose, sent, shown>>

(* Ask devices to leave live mode; a request that fails is not repeated.   *)
Release(ds) ==
  \E failed \in IF NetFails THEN SUBSET ds ELSE {{}} :
    /\ live' = live \ (ds \ failed)
    /\ loose' = (loose \ ds) \cup (live \cap failed)

(* All bindings have just been disabled: release all devices.              *)
Gate ==
  LET has == \E b \in ToSet(snap.bind) : Enabled(b)
  IN  /\ pc = "gate"
      /\ Busy
      /\ IF had /\ ~has
         THEN Release(active) /\ active' = {}
         ELSE UNCHANGED <<live, loose, active>>
      /\ had' = has
      /\ next' = 1
      /\ pc' = "bindings"
      /\ UNCHANGED <<cfg, fx, saving, snap, idx, cache, old, sent, shown>>

(* Mutation: the effect is not part of the key.                            *)
FrameByLength(effect, leds, look) ==
  LET hits == {f \in cache : f.leds = leds}
  IN  IF hits # {} THEN CHOOSE f \in hits : TRUE
      ELSE [effect |-> effect, leds |-> leds, look |-> look]

(* frame_cache_: looked up by effect, LED count and frame_idx.             *)
Frame(effect, leds, look) ==
  LET hits == {f \in cache : f.effect = effect /\ f.leds = leds}
  IN  IF hits # {} THEN CHOOSE f \in hits : TRUE
      ELSE [effect |-> effect, leds |-> leds, look |-> look]

CacheSize == old + Cardinality(cache)
(* Mutation: no limit.                                                     *)
CachedAlways(f) == cache \cup {f}

(* A frame is cached while there is room.                                  *)
Cached(f) == IF CacheSize < CacheMax THEN cache \cup {f} ELSE cache

Drivable(b) == Enabled(b) /\ Resolved(b, snap.devs) /\ b.effect # NoEffect

(* Render one binding's frame, or take it from the cache, and send it.     *)
(* The device counts as active even if the frame cannot be sent.           *)
SendBinding ==
  /\ pc = "bindings"
  /\ next <= Len(snap.bind)
  /\ LET b == snap.bind[next]
         f == Frame(b.effect, Leds[b.dev], b.look)
     IN  /\ Drivable(b)
         /\ active' = active \cup {b.dev}
         /\ cache' = Cached(f)
         /\ loose' = loose \ {b.dev}
         /\ \/ /\ live' = live \cup {b.dev}
               /\ sent' = [dev |-> b.dev, frame |-> f, want |-> b]
            \/ /\ NetFails
               /\ UNCHANGED <<live, sent>>
  /\ next' = next + 1
  /\ UNCHANGED <<cfg, fx, saving, pc, snap, idx, had, old, shown>>

(* Mutation: a break where there should be a continue.                     *)
SkipBindings ==
  /\ pc = "bindings"
  /\ next <= Len(snap.bind)
  /\ ~Drivable(snap.bind[next])
  /\ next' = Len(snap.bind) + 1
  /\ UNCHANGED <<cfg, fx, saving, pc, snap, idx, had, active, cache, old, live, loose,
                 sent, shown>>

(* A binding that is disabled, leads nowhere or has no effect.             *)
SkipBinding ==
  /\ pc = "bindings"
  /\ next <= Len(snap.bind)
  /\ ~Drivable(snap.bind[next])
  /\ next' = next + 1
  /\ UNCHANGED <<cfg, fx, saving, pc, snap, idx, had, active, cache, old, live, loose,
                 sent, shown>>

(* Mutations: devices whose binding was removed are missed; they are       *)
(* forgotten, not released.                                                *)
CleanupDisabled ==
  LET gone == {b.dev : b \in {c \in ToSet(snap.bind) : ~Enabled(c)}} \cap active
  IN  /\ pc = "bindings"
      /\ next > Len(snap.bind)
      /\ IF idx % CleanupPeriod = 0
         THEN Release(gone) /\ active' = active \ gone
         ELSE UNCHANGED <<live, loose, active>>
      /\ pc' = "local"
      /\ UNCHANGED <<cfg, fx, saving, snap, idx, next, had, cache, old, sent,
                     shown>>

CleanupForgetting ==
  /\ pc = "bindings"
  /\ next > Len(snap.bind)
  /\ active' = IF idx % CleanupPeriod = 0
               THEN active \cap Bound(snap.bind, snap.devs) ELSE active
  /\ pc' = "local"
  /\ UNCHANGED <<cfg, fx, saving, snap, idx, next, had, cache, old, live, loose,
                 sent, shown>>

(* Now and then, release the devices no enabled binding leads to.          *)
Cleanup ==
  LET gone == active \ Bound(snap.bind, snap.devs)
  IN  /\ pc = "bindings"
      /\ next > Len(snap.bind)
      /\ IF idx % CleanupPeriod = 0
         THEN Release(gone) /\ active' = active \ gone
         ELSE UNCHANGED <<live, loose, active>>
      /\ pc' = "local"
      /\ UNCHANGED <<cfg, fx, saving, snap, idx, next, had, cache, old, sent,
                     shown>>

(* Local strips with an assignment, which is read from cfg, grouped by     *)
(* effect, LED count and link to the audio.  A group gets one frame,       *)
(* rendered for its first strip.  frame_cache_ does not know of the link:  *)
(* while there is room, the frame of the first of two groups that differ   *)
(* in it serves both.                                                      *)
Strips == {s \in ToSet(snap.segs) : cfg.assign[s] # NULL}
KeyOf(s) == <<cfg.assign[s].effect, Leds[s]>>
GroupOf(s) == <<cfg.assign[s].effect, Leds[s], cfg.assign[s].audio>>

FrameFor(s) == Frame(cfg.assign[s].effect, Leds[s], cfg.assign[s].look)
Hit(s) == \E f \in cache : f.effect = cfg.assign[s].effect /\ f.leds = Leds[s]

(* For each group the strip its frame is rendered for, and the keys of the *)
(* frames that are put into the cache, which go by the order of the groups.*)
RenderLocal ==
  /\ pc = "local"
  /\ \E first \in [{GroupOf(s) : s \in Strips} -> Strips],
        kept \in SUBSET {KeyOf(s) : s \in {u \in Strips : ~Hit(u)}} :
       /\ CacheSize + Cardinality(kept) <= CacheMax
       /\ \/ CacheSize + Cardinality(kept) = CacheMax
          \/ kept = {KeyOf(s) : s \in {u \in Strips : ~Hit(u)}}
       /\ \A s, u \in Strips :
            IF KeyOf(s) \in kept
            THEN /\ KeyOf(first[GroupOf(s)]) = KeyOf(s)
                 /\ KeyOf(u) = KeyOf(s) => first[GroupOf(u)] = first[GroupOf(s)]
            ELSE GroupOf(first[GroupOf(s)]) = GroupOf(s)
       /\ shown' = [s \in Segs |-> IF s \in Strips
                                   THEN [frame |-> FrameFor(first[GroupOf(s)]),
                                         want  |-> cfg.assign[s]]
                                   ELSE shown[s]]
       /\ old' = CacheSize + Cardinality(kept)
  /\ cache' = {}
  /\ pc' = "virtual"
  /\ UNCHANGED <<cfg, fx, saving, snap, idx, next, had, active, live, loose, sent>>

(* Virtual segments: each member that is a device known to the loop and    *)
(* has a share of its segment's frame is sent it, without being recorded   *)
(* as active.  Then the next frame.                                        *)
Virtuals == {v \in snap.virt : v.on}
Driven ==
  UNION {{v.members[i].id : i \in {j \in Reached(v.members, snap.segs, snap.devs) :
                                     v.members[j].type = "wled"}} : v \in Virtuals}

RenderVirtual ==
  /\ pc = "virtual"
  /\ \E failed \in IF NetFails THEN SUBSET Driven ELSE {{}} :
       /\ live' = live \cup (Driven \ failed)
       /\ loose' = loose \cup (Driven \ failed)
  /\ idx' = (idx + 1) % (ClearPeriod * CleanupPeriod)
  /\ pc' = "snapshot"
  /\ UNCHANGED <<cfg, fx, saving, snap, next, had, active, cache, old, sent,
                 shown>>

-----------------------------------------------------------------------------
Loop ==
  \/ Snapshot \/ Rest \/ Gate \/ SendBinding \/ SkipBinding \/ Cleanup
  \/ RenderLocal \/ RenderVirtual

Next ==
  \/ \E c \in Configs : Save(c)
  \/ UpdateConfig
  \/ SaveFail
  \/ Loop

Spec == Init /\ [][Next]_vars

(* The loop's task is scheduled.                                           *)
LiveSpec == Spec /\ WF_vars(Loop)
-----------------------------------------------------------------------------
Frames == [effect : STRING, leds : Nat, look : STRING]

TypeOK ==
  /\ cfg \in Configs
  /\ saving \in BOOLEAN
  /\ fx \in {[bind |-> c.bind, devs |-> c.devs] : c \in Configs}
  /\ pc \in {"snapshot", "gate", "bindings", "local", "virtual"}
  /\ idx \in 0..(ClearPeriod * CleanupPeriod - 1)
  /\ next \in 1..(Len(snap.bind) + 1) \/ pc \in {"snapshot", "gate"}
  /\ had \in BOOLEAN
  /\ active \subseteq Devs
  /\ live \subseteq Devs /\ loose \subseteq live
  /\ cache \subseteq Frames
  /\ CacheSize <= CacheMax

(* Every device the loop has put into live mode is one it remembers, so    *)
(* that disabling a binding can bring the device back, except those that   *)
(* refused to leave live mode when they were last told to and those that a *)
(* virtual segment drives, which the loop never remembers                  *)
(* (wled_effects.cpp:1881-1890, 1944-1951, 1976-2003).                     *)
LiveTracked == live \subseteq active \cup loose

(* A device whose binding the runtime knows to be disabled or removed is   *)
(* released and forgotten (wled_effects.cpp:1881-1890, 1976-2003), as long *)
(* as the loop goes on rendering something: with nothing left at all it    *)
(* rests before it comes to that (wled_effects.cpp:1858-1865).             *)
Unbound(d) == d \in active /\ d \notin Bound(fx.bind, fx.devs)
Released ==
  []<>(pc = "bindings") => \A d \in Devs : Unbound(d) ~> ~Unbound(d)

(* A device with an enabled binding gets its frames rendered and sent,     *)
(* again and again, whatever the bindings were before and whatever is lost *)
(* (wled_effects.cpp:1918-1974).                                           *)
Wanted(d) ==
  \E b \in ToSet(fx.bind) :
    b.dev = d /\ Enabled(b) /\ d \in fx.devs /\ b.effect # NoEffect
SendsTo(d) == SendBinding /\ snap.bind[next].dev = d
Served == \A d \in Devs : <>[]Wanted(d) => []<><<SendsTo(d)>>_vars

(* A device or strip shows the effect chosen for it, at its own length,    *)
(* although frames are shared (wled_effects.cpp:1662-1700, 2009-2070).     *)
OwnEffect ==
  /\ sent # Nothing => /\ sent.frame.effect = sent.want.effect
                       /\ sent.frame.leds = Leds[sent.dev]
  /\ \A s \in Segs : shown[s] # Blank =>
       /\ shown[s].frame.effect = shown[s].want.effect
       /\ shown[s].frame.leds = Leds[s]

(* The two passes over a virtual segment agree: no share reaches behind    *)
(* the frame, and unless a member asks for more LEDs than its device has   *)
(* or the sum overflows, every member gets all it asked for                *)
(* (wled_effects.cpp:2094-2110, 2119-2180).                                *)
Modest(m, devs) ==
  \/ m.type = "physical"
  \/ m.type = "wled" /\ m.length <= (IF m.id \in devs THEN Leds[m.id] ELSE 0)
OwnShare ==
  pc = "virtual" =>
    \A v \in Virtuals :
      LET total == Total(v.members, snap.segs, snap.devs)
          cut == Cuts(v.members, snap.segs, snap.devs)
      IN  \A i \in DOMAIN v.members :
            /\ cut[i] <= FrameLength(total)
            /\ total < Width /\ (\A j \in DOMAIN v.members :
                                  Modest(v.members[j], snap.devs))
                 => cut[i] - cut[i - 1]
                      = Wished(v.members[i], snap.segs, snap.devs)
=============================================================================
