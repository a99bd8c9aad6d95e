------------------------------- MODULE MCRunner -------------------------------
(***************************************************************************)
(* Instances of Runner for TLC: Pods of one or two flows, with every kind  *)
(* of plugin, credentials that are there or not, and volumes that change   *)
(* while the runner reads them.                                            *)
(***************************************************************************)
EXTENDS Runner, TLC

CONSTANTS
  fa, fb, rz, p1, p2, hz, pc1, pc2, s1, s2, ka, kb, ke, kc, v1, v2, bad,
  google, bedrock, custom, vertex, ollama, nowhere, azure, foundry, other,
  full, first, second, empty, img1, port1, none, absent, unread, noImage

Plain(type, extra) == [type |-> type, keys |-> <<>>, extra |-> extra]

Payloads ==
  google :> Plain("googleai", FALSE) @@ bedrock :> Plain("bedrock", FALSE)
    @@ custom :> [Plain("openai", FALSE) EXCEPT !.keys = <<kb, ka>>]
    @@ vertex :> Plain("vertexai", FALSE)
    @@ ollama :> Plain("ollama", TRUE) @@ nowhere :> Plain("ollama", FALSE)
    @@ azure :> Plain("azureaifoundry", TRUE) @@ foundry :> Plain("azureaifoundry", FALSE)
    @@ [x \in Data |-> Plain("other", FALSE)]

NoKeys == [k \in Keys |-> none]

Contents ==
  full :> [k \in Keys |-> v2] @@ first :> [NoKeys EXCEPT ![ka] = v1]
    @@ second :> [NoKeys EXCEPT ![kb] = v2, ![ke] = v1] @@ [x \in Data |-> NoKeys]

(* Plugins share names here, so that what one does may disturb another.    *)
Defaults ==
  "googleai" :> <<ka, kb>> @@ "openai" :> <<ka>> @@ "bedrock" :> <<ka, kb>>
    @@ "vertexai" :> <<kc>> @@ "azureaifoundry" :> <<ka>>
    @@ "ollama" :> <<>> @@ "other" :> <<>>

Obj(d, r) == [data |-> d, ref |-> r]
Store(plugin1, secret1, plugin2, secret2) ==
  pc1 :> Obj(plugin1, s1) @@ pc2 :> Obj(plugin2, s2)
    @@ s1 :> Obj(secret1, none) @@ s2 :> Obj(secret2, none)
    @@ [o \in Deps |-> Obj(first, none)]

Text(p, c) == [kind |-> "inline", name |-> p, content |-> c]
Using(c) == [kind |-> "inline", name |-> none, body |-> first, plugin |-> c]
NoModel == [kind |-> "none", name |-> none, body |-> none, plugin |-> none]

FlowOf(f, ps, c) == [name |-> f, prompts |-> ps, tools |-> <<>>, model |-> Using(c)]
SetOf(fl) == [image |-> img1, port |-> port1, replicas |-> 1, flows |-> fl]
Single(ps, m) ==
  [image |-> img1, port |-> port1, replicas |-> 1, prompts |-> ps, tools |-> <<>>, model |-> m]

Side(s, d) == [spec |-> s, deps |-> d]
Layout(mult, was, is, e) == [multi |-> mult, before |-> was, after |-> is, env |-> e]
Fixed(mult, side, e) == Layout(mult, side, side, e)

Plugins == {google, bedrock, custom, vertex, ollama, nowhere, azure, foundry, other}
SecretContents == {full, first, second, empty}
EnvKa == [NoKeys EXCEPT ![ka] = v2]

Two(ps1, ps2) == SetOf(<<FlowOf(fa, ps1, pc1), FlowOf(fb, ps2, pc2)>>)
Helpers == Two(<<Text(p1, full), Text(p2, full)>>, <<Text(p1, first)>>)
OnePrompt == <<Text(p1, full)>>

(* Every plugin with every content of its Secret, next to another flow     *)
(* with credentials of its own, or in a Flow.                              *)
Every ==
  {Fixed(TRUE, Side(Helpers, Store(other1, y, other2, first)), e) :
     other1 \in Plugins, y \in SecretContents, other2 \in {google, bedrock}, e \in {NoKeys, EnvKa}}
    \cup {Fixed(FALSE, Side(Single(OnePrompt, Using(pc1)), Store(q, y, q, y)), e) :
             q \in Plugins, y \in SecretContents, e \in {NoKeys, EnvKa}}

(* Names that are taken, prompts that cannot be parsed, no model.          *)
Good == Store(google, first, bedrock, full)
Odd ==
  {Fixed(TRUE, Side(SetOf(<<FlowOf(rz, OnePrompt, pc1)>>), Good), NoKeys),
   Fixed(TRUE, Side(Two(<<Text(p2, bad), Text(p1, full)>>, OnePrompt), Good), NoKeys),
   Fixed(TRUE, Side(Two(OnePrompt, <<Text(p2, full), Text(p1, bad)>>), Good), NoKeys),
   Fixed(FALSE, Side(Single(<<Text(hz, full), Text(p1, full)>>, Using(pc1)), Good), NoKeys),
   Fixed(FALSE, Side(Single(<<Text(hz, bad), Text(p1, full)>>, Using(pc1)), Good), NoKeys),
   Fixed(FALSE, Side(Single(OnePrompt, NoModel), Good), NoKeys)}

(* Credentials, plugins, prompts and entrypoints that change under the     *)
(* runner, files that vanish.                                              *)
Changing ==
  {Layout(TRUE, Side(Helpers, Store(was, y, google, first)),
          Side(Two(<<Text(p2, first)>>, <<Text(p2, full), Text(p1, first)>>),
               Store(is, full, bedrock, second)), NoKeys) :
     was \in {google, other}, is \in {bedrock, custom}, y \in {empty, first}}
    \cup {Layout(FALSE, Side(Single(<<Text(p1, was), Text(p2, full)>>, Using(pc1)),
                            Store(google, y, google, first)),
                 Side(Single(OnePrompt, Using(pc1)), Store(google, second, google, first)),
                 NoKeys) : was \in {bad, first}, y \in {empty, first}}

AllLayouts == Every \cup Odd \cup Changing
=============================================================================
