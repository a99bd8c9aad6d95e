-------------------------- MODULE FlowRolloutTracking --------------------------
(***************************************************************************)
(* Why no Pod keeps stale content, as long as nothing comes back: the      *)
(* invariant from which HashDescribesPods and NoStaleContent follow.  What *)
(* a Pod's template was hashed from, what its container loaded, what the   *)
(* ConfigMaps hold, what the reconcile in progress has read and what the   *)
(* caches hold were all read from the same objects, in this order; so if   *)
(* the first and the last are equal, so is everything between.             *)
(***************************************************************************)
EXTENDS FlowRollout, FlowTracking, Aging

(* No payload that was replaced is ever written back, whether to an object *)
(* or by pointing a Flow or a Model at other objects.                      *)
NothingComesBack ==
  /\ \A o \in Deps : UpTo(o, deps[o], deps'[o])
  /\ \A f \in Flows : flows'[f] # Absent /\ SameContent(flows[f].spec, flows'[f].spec)

ForwardSpec == RSpec /\ [][NothingComesBack]_rvars

-----------------------------------------------------------------------------
NoNewer(f, k, x, y) ==
  PieceBefore(flows[f].spec.model.name, PluginOf(flows[f].spec, deps), k, x, y)

(* What the reconcile of f in progress has read and will read, if nothing  *)
(* changes; what the next one will, if none is in progress.                *)
Prospect(f) ==
  [o \in Deps |-> IF Reconciling(f) /\ rec.got[o] # Unread THEN rec.got[o] ELSE cdeps[o]]

(* Content x of ConfigMap k is no newer than the ConfigMap, if there is    *)
(* one, nor than what it is going to be.                                   *)
NoNewerThanMounts(f, k, x) ==
  /\ kids[f][k] # Absent => NoNewer(f, k, x, kids[f][k].body)
  /\ NoNewer(f, k, x, Child(k, flows[f].spec, Prospect(f)))

NoNewerThanSecret(secret) ==
  IF secret.name = None THEN secret.data = None
  ELSE /\ deps[secret.name] # Absent
       /\ Before(secret.name, secret.data, deps[secret.name].data)

NotAhead(f, content) ==
  /\ \A k \in Mounted : NoNewerThanMounts(f, k, content[k])
  /\ NoNewerThanSecret(content.secret)

(* A container started later than its template's hash was taken.           *)
Follows(f, content, hash) ==
  /\ \A k \in Mounted : NoNewer(f, k, hash[k], content[k])
  /\ content.secret.name = hash.secret.name
  /\ Before(hash.secret.name, hash.secret.data, content.secret.data)

TemplateOK(f, template) ==
  template.envFrom = template.hash.secret.name /\ NotAhead(f, template.hash)

PodOK(f, p) ==
  /\ TemplateOK(f, p.template)
  /\ p.loaded # None => NotAhead(f, p.loaded) /\ Follows(f, p.loaded, p.template.hash)

ChildrenOK(f) ==
  /\ \A k \in Mounted : kids[f][k] # Absent => NoNewerThanMounts(f, k, kids[f][k].body)
  /\ kids[f]["deploy"] # Absent => TemplateOK(f, TemplateOf(f))

(* The caches and the reconcile are behind, but of the same content.       *)
CacheOK(f) ==
  /\ flows[f] # Absent /\ cflows[f] # Absent
  /\ SameContent(flows[f].spec, cflows[f].spec)
  /\ BadSources(flows[f].spec) = {} /\ flows[f].spec.model.kind # "both"
  /\ \A o \in Sources(flows[f].spec, deps) : cdeps[o] # Absent /\ Prospect(f)[o] # Absent

ReadsOK(f) ==
  Reconciling(f) =>
    /\ SameContent(flows[f].spec, rec.orig.spec)
    /\ \A o \in Deps : rec.got[o] # Unread => UpTo(o, rec.got[o], cdeps[o])
    /\ rec.pc = "apply" =>
         \A i \in DOMAIN ApplyOrder :
           LET k == ApplyOrder[i]
           IN  i < rec.next /\ k \in Mounted /\ kids[f][k] # Absent
                 => kids[f][k].body = Child(k, rec.orig.spec, rec.got)

(* The invariant.                                                          *)
RolloutTracking ==
  /\ \A o \in Deps : UpTo(o, cdeps[o], deps[o])
  /\ \A f \in Flows : /\ CacheOK(f) /\ ReadsOK(f) /\ ChildrenOK(f)
                      /\ \A p \in pods[f] : PodOK(f, p)
=============================================================================
