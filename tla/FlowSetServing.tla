----------------------------- MODULE FlowSetServing -----------------------------
(***************************************************************************)
(* Why the Pod of a FlowSet serves what it should, as long as no payload   *)
(* that was replaced comes back and a flow of the set is told by its name: *)
(* the invariant from which ContentServed follows.  Per flow, what the     *)
(* Deployment's hash was taken of, what the Pod has loaded and what the    *)
(* ConfigMaps hold were rendered of the same objects, later and later; so  *)
(* if the hash is that of the present objects, so is everything between.   *)
(***************************************************************************)
EXTENDS FlowSetTracking, Aging

(* The flows in the specs users give this set, and those of one name.      *)
GivenFlows ==
  UNION {{s.flows[i] : i \in Entries(s)} : s \in plan.specs \cup {plan.start}}

GivenNames == {flow.name : flow \in GivenFlows}
FlowNamed(f) == CHOOSE flow \in GivenFlows : flow.name = f

(* Flows join and leave the set, but under one name it is always the same  *)
(* flow: the same prompts, tools and model.                                *)
FlowsKeepContent == \A g, h \in GivenFlows : g.name = h.name => g = h

(* No payload that was replaced is ever written back, and none removed.    *)
DepsMoveForward == \A o \in Deps : UpTo(o, deps[o], deps'[o])

ForwardSetSpec == Spec /\ [][DepsMoveForward]_vars

-----------------------------------------------------------------------------
(* What the hash was taken of.                                             *)

WithPrompt(p) ==
  {f \in GivenNames : \E i \in DOMAIN FlowNamed(f).prompts : FlowNamed(f).prompts[i].name = p}

WithTool(t) ==
  {f \in GivenNames : \E i \in DOMAIN FlowNamed(f).tools : FlowNamed(f).tools[i] = t}

(* The file of the flow at entry i among the files of one name, which the  *)
(* flows in users have.                                                    *)
FileOf(hash, files, i, users) ==
  LET rank == Cardinality({j \in DOMAIN hash.manifest : j < i /\ hash.manifest[j].name \in users})
  IN  CHOOSE x \in Data : <<rank, x>> \in files

HashedNames(hash) == {hash.manifest[i].name : i \in DOMAIN hash.manifest}

(* The content of ConfigMap k of flow f that went into the hash.           *)
Hashed(hash, k, f) ==
  LET i == CHOOSE j \in DOMAIN hash.manifest : hash.manifest[j].name = f
  IN  CASE k = "prompts" ->
             [p \in Prompts |-> IF f \in WithPrompt(p)
                                THEN FileOf(hash, hash.prompts[p], i, WithPrompt(p)) ELSE Absent]
        [] k = "tools" ->
             [t \in Tools |-> IF f \in WithTool(t)
                              THEN FileOf(hash, hash.tools[t], i, WithTool(t)) ELSE Absent]
        [] k = "config" -> hash.config[i].config

-----------------------------------------------------------------------------
(* What flow f is or will be rendered of: what the reconcile in progress   *)
(* has read for it, and what it or the next one will read if nothing       *)
(* changes.                                                                *)
EntryOf(spec, f) == CHOOSE i \in Entries(spec) : spec.flows[i].name = f

ReadFor(f) == rec # None /\ f \in FlowNames(rec.orig.spec)

Prospect(f) ==
  [o \in Deps |->
     IF ReadFor(f) /\ rec.got[EntryOf(rec.orig.spec, f)][o] # Unread
     THEN rec.got[EntryOf(rec.orig.spec, f)][o] ELSE cdeps[o]]

(* Contents of f's ConfigMap k: x is no newer than y.                      *)
NoNewer(f, k, x, y) ==
  PieceBefore(FlowNamed(f).model.name, PluginOf(FlowNamed(f), deps), k, x, y)

(* The config.json of a set's flow also names its directory.               *)
Piece(k, body) == IF k = "config" THEN body.config ELSE body
OfFlow(f, k, body) == k = "config" => body.dir = f

MapOK(f, k) ==
  LET kid == kids[<<f, k>>]
  IN  kid # Absent => OfFlow(f, k, kid.body) /\ RenderedBy(FlowNamed(f), k, Piece(k, kid.body), deps)

(* The hash is behind the ConfigMaps and what they will be, and behind the *)
(* Secrets.                                                                *)
HashOK(hash, f, k) ==
  /\ RenderedBy(FlowNamed(f), k, Hashed(hash, k, f), Prospect(f))
  /\ kids[<<f, k>>] # Absent => NoNewer(f, k, Hashed(hash, k, f), Piece(k, kids[<<f, k>>].body))

TemplateOK(t) ==
  /\ HashedNames(t.hash) \subseteq GivenNames
  /\ \A f \in HashedNames(t.hash), k \in Mounted : HashOK(t.hash, f, k)
  /\ \A mount \in t.volumes :
       /\ mount[1] \in HashedNames(t.hash) /\ deps[mount[2]] # Absent
       /\ Before(mount[2], t.hash.secrets[mount[2]], deps[mount[2]].data)

(* What a Pod has loaded is not behind the hash, nor ahead of the objects. *)
LoadedOK(hash, mount, loaded) ==
  /\ mount[1] \in GivenNames /\ deps[mount[2]] # Absent
  /\ \A k \in Mounted :
       /\ OfFlow(mount[1], k, loaded.maps[k])
       /\ RenderedBy(FlowNamed(mount[1]), k, Piece(k, loaded.maps[k]), deps)
       /\ NoNewer(mount[1], k, Hashed(hash, k, mount[1]), Piece(k, loaded.maps[k]))
  /\ Before(mount[2], hash.secrets[mount[2]], loaded.secret)
  /\ Before(mount[2], loaded.secret, deps[mount[2]].data)

PodOK ==
  pod # NoPod =>
    \A mount \in pod.template.volumes : LoadedOK(pod.template.hash, mount, pod.loaded[mount])

DeployOK == kids[DeploySlot] # Absent => TemplateOK(kids[DeploySlot].body.template)

(* A reconcile goes by what the caches held, and a child it has sent is as *)
(* it sent it, if it is still there.                                       *)
ReadingsOK ==
  rec # None =>
    \A i \in Entries(rec.orig.spec), o \in Deps :
      rec.got[i][o] # Unread => UpTo(o, rec.got[i][o], cdeps[o])

SentOK ==
  rec # None /\ rec.pc = "apply" =>
    \A n \in 1..(rec.next - 1) :
      LET slot == SetApplyOrder(rec.orig.spec)[n]
      IN  kids[slot] # Absent => kids[slot].body = SetChild(slot, rec.orig.spec, rec.got)

(* The invariant.                                                          *)
ServingTracking ==
  FlowsKeepContent =>
    /\ \A o \in Deps : UpTo(o, cdeps[o], deps[o])
    /\ ReadingsOK /\ SentOK
    /\ \A f \in GivenNames, k \in Mounted : MapOK(f, k)
    /\ DeployOK /\ PodOK
=============================================================================
