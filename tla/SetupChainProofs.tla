--------------------------- MODULE SetupChainProofs ---------------------------
(***************************************************************************)
(* The properties of SetupChain, for any number of calls and of pushes and *)
(* whatever the repository contains.                                       *)
(*                                                                         *)
(* A fresh row is the reference because a call that is still clean carries *)
(* the fields of the reference, was begun from fresh rows, and has loaded  *)
(* the row as it still is (CleanCalls).  So the columns that it leaves     *)
(* alone are right already.                                                *)
(***************************************************************************)
EXTENDS SetupChain, ListLemmas, SequenceTheorems, TLAPS

-----------------------------------------------------------------------------
(* The columns of a row.                                                   *)

Columns(r) ==
    /\ r = [f \in DOMAIN r |-> r[f]]
    /\ "commands" \in DOMAIN r => r.commands = [s \in Slots |-> r.commands[s]]

\* An upsert over the row as it was loaded writes what is new and nothing else.
LEMMA WrittenOver ==
    ASSUME NEW now, NEW new, Columns(new)
    PROVE  Written(now, now, new) = new
<1>1. ASSUME NEW f \in DOMAIN new, f # "commands"
      PROVE  Written(now, now, new)[f] = new[f]
  BY <1>1 DEF Written, Column
<1>2. ASSUME "commands" \in DOMAIN new
      PROVE  Written(now, now, new)["commands"] = new["commands"]
  <2>1. Written(now, now, new)["commands"] =
           [s \in Slots |-> Column(now["commands"][s], now["commands"][s], new["commands"][s])]
    BY <1>2 DEF Written
  <2>2. Written(now, now, new)["commands"] = [s \in Slots |-> new["commands"][s]]
    BY <2>1 DEF Column
  <2> QED
    BY <1>2, <2>2 DEF Columns
<1>3. Written(now, now, new) = [f \in DOMAIN new |-> Written(now, now, new)[f]]
  BY DEF Written
<1>4. \A f \in DOMAIN new : Written(now, now, new)[f] = new[f]
  BY <1>1, <1>2
<1>5. Written(now, now, new) = [f \in DOMAIN new |-> new[f]]
  BY <1>3, <1>4
<1> QED
  BY <1>5 DEF Columns

LEMMA IntentColumns == ASSUME NEW files, NEW tree, NEW dna PROVE Columns(Intent(files, tree, dna))
<1> DEFINE intent == Intent(files, tree, dna)
<1>1. intent = [f \in DOMAIN intent |-> intent[f]]
  BY DEF Intent
<1>2. intent.commands = [s \in Slots |-> intent.commands[s]]
  BY DEF Intent, WithDefaults, Taken
<1> QED
  BY <1>1, <1>2 DEF Columns

LEMMA SpecColumns ==
    ASSUME NEW intent, Columns(intent), "commands" \in DOMAIN intent
    PROVE  /\ Columns(Spec(intent))
           /\ Spec(intent).commands = intent.commands
           /\ Spec(intent).manager = intent.manager
           /\ Spec(intent).health = intent.health
<1> DEFINE first == Primary(intent.languages, LanguagePriority)
           framework == Primary(intent.frameworks, FrameworkPriority)
           static == framework = "Static Website"
           language == IF static /\ first = None THEN "HTML" ELSE first
           ports == AppPorts(intent.ports, framework)
           native == intent.commands["install"] # NoCommand /\ Runs(intent.commands)
           strategy == Strategy(intent.docker, native, framework)
           memory == Memory(framework, intent.databases, intent.caches, intent.queues)
           runtime == IF static THEN "Browser" ELSE RuntimeOf(first)
           confidence == SpecConfidence(intent.confidence, strategy,
                           language # None \/ framework # None \/ intent.evidence)
           new == [language |-> language, runtime |-> runtime,
                   version |-> intent.version, manager |-> intent.manager, framework |-> framework,
                   commands |-> intent.commands, health |-> intent.health,
                   healthCommand |-> intent.health /\ ports # {},
                   databases |-> intent.databases, caches |-> intent.caches, queues |-> intent.queues,
                   ports |-> ports, servicePorts |-> intent.ports \cap ServicePorts,
                   env |-> intent.env, missingEnv |-> ".env.example" \notin intent.sources,
                   strategy |-> strategy, memory |-> memory, confidence |-> confidence]
<1>1. Spec(intent) = new
  BY Zenon DEF Spec
<1> HIDE DEF language, runtime, framework, strategy, memory, confidence, ports
<1>2. new = [f \in DOMAIN new |-> new[f]]
  OBVIOUS
<1>3. /\ new.commands = intent.commands /\ new.manager = intent.manager
      /\ new.health = intent.health
  OBVIOUS
<1>4. Columns(new)
  BY <1>2, <1>3 DEF Columns
<1> HIDE DEF new
<1> QED
  BY <1>1, <1>3, <1>4, Zenon

LEMMA BlueprintColumns ==
    ASSUME NEW spec, NEW intent, NEW dna
    PROVE  Columns(Blueprint(spec, intent, dna))
<1>1. Blueprint(spec, intent, dna) =
         [f \in DOMAIN Blueprint(spec, intent, dna) |-> Blueprint(spec, intent, dna)[f]]
  BY DEF Blueprint
<1>2. "commands" \notin DOMAIN Blueprint(spec, intent, dna)
  BY DEF Blueprint
<1> QED
  BY <1>1, <1>2 DEF Columns

LEMMA PlanColumns == ASSUME NEW blueprint, NEW spec PROVE Columns(Plan(blueprint, spec))
<1>1. Plan(blueprint, spec) = [f \in DOMAIN Plan(blueprint, spec) |-> Plan(blueprint, spec)[f]]
  BY DEF Plan
<1>2. "commands" \notin DOMAIN Plan(blueprint, spec)
  BY DEF Plan
<1> QED
  BY <1>1, <1>2 DEF Columns

-----------------------------------------------------------------------------
(* The calls.                                                              *)

Content ==
    /\ repo \in Snapshots /\ ahead \in Seq(Snapshots)
    /\ fresh \subseteq Kinds /\ DOMAIN row = Kinds /\ DOMAIN call = Calls

\* What the record of a call has in each of its places.
Placed(x) ==
    /\ x.at # "idle" =>
          /\ {"at", "kind", "fields", "clean"} \subseteq DOMAIN x
          /\ x.kind \in Kinds /\ x.clean \in BOOLEAN
    /\ x.at = "loaded" => "loaded" \in DOMAIN x
    /\ x.at \in {"idle", "read", "loaded"}

Calling == \A c \in Calls : Placed(call[c])

\* A call that met no other writer carries what it should.
CleanCall(x) ==
    /\ x.fields \in Reference[x.kind]
    /\ Upstream(x.kind) \subseteq fresh
    /\ x.at = "loaded" => x.loaded = row[x.kind]
CleanCalls == \A c \in Calls : call[c].at # "idle" /\ call[c].clean => CleanCall(call[c])

\* A fresh row was made from fresh rows.
FreshFromFresh == \A k \in fresh : Upstream(k) \subseteq fresh

ChainInv == Content /\ Calling /\ CleanCalls /\ FreshFromFresh /\ RegeneratedIsReference

LEMMA ReferenceColumns == \A k \in Kinds : \A r \in Reference[k] : Columns(r)
<1> DEFINE intent == Intent(repo.files, repo.tree, repo.dna)
           spec == Spec(intent)
           blueprint == Blueprint(spec, intent, repo.dna)
<1>1. Columns(intent) /\ "commands" \in DOMAIN intent
  <2>1. "commands" \in DOMAIN intent
    BY DEF Intent
  <2> QED
    BY <2>1, IntentColumns
<1>2. Columns(spec)
  BY <1>1, SpecColumns
<1>3. Columns(blueprint) /\ Columns(Plan(blueprint, spec))
  BY BlueprintColumns, PlanColumns
<1>4. Reference = [intent |-> {intent}, spec |-> {spec}, blueprint |-> {blueprint},
                   plan |-> {Plan(blueprint, spec)}]
  BY DEF Reference
<1> HIDE DEF intent, spec, blueprint
<1> QED
  BY <1>1, <1>2, <1>3, <1>4 DEF Kinds

LEMMA DisturbedCalls ==
    ASSUME NEW calls, \A c \in Calls : Placed(calls[c])
    PROVE  \A c \in Calls : /\ Placed(Disturbed(calls)[c])
                            /\ Disturbed(calls)[c].at # "idle" => Disturbed(calls)[c].clean = FALSE
<1> TAKE c \in Calls
<1>1. CASE calls[c].at = "idle"
  BY <1>1 DEF Disturbed, Idle, Placed
<1>2. CASE calls[c].at # "idle"
  <2>1. Disturbed(calls)[c] = [calls[c] EXCEPT !.clean = FALSE]
    BY <1>2 DEF Disturbed
  <2>2. Placed(calls[c])
    OBVIOUS
  <2> QED
    BY <1>2, <2>1, <2>2 DEF Placed
<1> QED
  BY <1>1, <1>2

LEMMA ChainInit == Init => ChainInv
<1> SUFFICES ASSUME Init PROVE ChainInv
  OBVIOUS
<1>1. PICK h \in Histories : repo = Head(h) /\ ahead = Tail(h)
  BY DEF Init
<1>2. h \in Seq(Snapshots) /\ h # <<>>
  BY HistoriesAssumption
<1>3. repo \in Snapshots /\ ahead \in Seq(Snapshots)
  BY <1>1, <1>2
<1>4. Calling /\ CleanCalls
  BY DEF Init, Calling, CleanCalls, Placed, Idle
<1> QED
  BY <1>3, <1>4 DEF Init, ChainInv, Content, FreshFromFresh, RegeneratedIsReference

LEMMA PushInv == ChainInv /\ Push => ChainInv'
<1> SUFFICES ASSUME ChainInv, Push PROVE ChainInv'
  OBVIOUS
<1>1. Content'
  <2>1. repo' \in Snapshots /\ ahead' \in Seq(Snapshots)
    BY DEF Push, ChainInv, Content
  <2> QED
    BY <2>1 DEF Push, ChainInv, Content, Disturbed
<1>2. Calling' /\ CleanCalls'
  BY DisturbedCalls DEF Push, ChainInv, Calling, CleanCalls
<1>3. FreshFromFresh' /\ RegeneratedIsReference'
  BY DEF Push, FreshFromFresh, RegeneratedIsReference
<1> QED
  BY <1>1, <1>2, <1>3 DEF ChainInv

\* A step that only moves one call on.
LEMMA CallMoves ==
    ASSUME ChainInv, NEW c \in Calls, NEW x, call' = [call EXCEPT ![c] = x],
           UNCHANGED <<repo, ahead, row, fresh>>, Placed(x),
           x.at # "idle" /\ x.clean => CleanCall(x)
    PROVE  ChainInv'
<1>1. Content'
  BY DEF ChainInv, Content
<1>2. \A d \in Calls : call'[d] = IF d = c THEN x ELSE call[d]
  BY DEF ChainInv, Content
<1>3. Calling'
  BY <1>2 DEF ChainInv, Calling
<1>4. ASSUME NEW d \in Calls, call'[d].at # "idle", call'[d].clean
      PROVE  CleanCall(call'[d])
  BY <1>2, <1>4 DEF ChainInv, CleanCalls
<1>5. Reference' = Reference
  BY DEF Reference
<1>6. CleanCalls'
  BY <1>4, <1>5 DEF CleanCalls, CleanCall
<1>7. FreshFromFresh' /\ RegeneratedIsReference'
  BY <1>5 DEF ChainInv, FreshFromFresh, RegeneratedIsReference
<1> QED
  BY <1>1, <1>3, <1>6, <1>7 DEF ChainInv

LEMMA ReferenceSingletons == \A k \in Kinds : \E r : Reference[k] = {r}
BY DEF Reference, Kinds

LEMMA FreshRow ==
    ASSUME ChainInv, NEW k \in fresh
    PROVE  Reference[k] = {Row(k)}
<1>1. row[k] = Reference[k] /\ k \in Kinds
  BY DEF ChainInv, Content, RegeneratedIsReference
<1>2. PICK r : Reference[k] = {r}
  BY <1>1, ReferenceSingletons
<1> QED
  BY <1>1, <1>2 DEF Row

\* What was read of everything is what there is.
LEMMA FetchedAll ==
    ASSUME NEW s \in Snapshots
    PROVE  Fetched(s.files, {}) = s.files
<1>1. Fetched(s.files, {}) = [n \in DOMAIN s.files |-> s.files[n]]
  BY DEF Fetched
<1> QED
  BY <1>1, HistoriesAssumption

LEMMA ReadRepositoryInv ==
    ASSUME ChainInv, NEW c \in Calls, ReadRepository(c)
    PROVE  ChainInv'
<1>1. PICK unread \in SUBSET DOMAIN repo.files, tree \in FetchedTrees :
         call' = [call EXCEPT ![c] =
                    [at |-> "read", kind |-> "intent",
                     fields |-> Intent(Fetched(repo.files, unread), tree, repo.dna),
                     clean |-> unread = {} /\ tree = repo.tree]]
  BY DEF ReadRepository
<1> DEFINE clean == unread = {} /\ tree = repo.tree
           fields == Intent(Fetched(repo.files, unread), tree, repo.dna)
           x == [at |-> "read", kind |-> "intent", fields |-> fields, clean |-> clean]
<1>2. clean => fields \in Reference["intent"]
  <2>1. clean => fields = Intent(repo.files, repo.tree, repo.dna)
    BY FetchedAll DEF ChainInv, Content
  <2>2. Reference["intent"] = {Intent(repo.files, repo.tree, repo.dna)}
    BY DEF Reference
  <2> QED
    BY <2>1, <2>2
<1>3. clean \in BOOLEAN
  OBVIOUS
<1> HIDE DEF clean, fields
<1>4. /\ x.at = "read" /\ x.kind = "intent" /\ x.fields = fields /\ x.clean = clean
      /\ DOMAIN x = {"at", "kind", "fields", "clean"}
  OBVIOUS
<1>5. call' = [call EXCEPT ![c] = x]
  BY <1>1 DEF clean, fields
<1> HIDE DEF x
<1>6. Placed(x)
  BY <1>3, <1>4 DEF Placed, Kinds
<1>7. x.clean => CleanCall(x)
  BY <1>2, <1>4 DEF CleanCall, Upstream
<1>8. UNCHANGED <<repo, ahead, row, fresh>>
  BY DEF ReadRepository
<1> QED
  BY <1>5, <1>6, <1>7, <1>8, CallMoves

LEMMA ReadRowsInv ==
    ASSUME ChainInv, NEW c \in Calls, NEW kind \in Kinds, NEW fields, ReadRows(c, kind, fields),
           Upstream(kind) \subseteq fresh => fields \in Reference[kind]
    PROVE  ChainInv'
<1> DEFINE clean == Upstream(kind) \subseteq fresh
           x == [at |-> "read", kind |-> kind, fields |-> fields, clean |-> clean]
<1>1. call' = [call EXCEPT ![c] = x] /\ UNCHANGED <<repo, ahead, row, fresh>>
  BY DEF ReadRows
<1>2. clean \in BOOLEAN /\ (clean => Upstream(kind) \subseteq fresh)
  OBVIOUS
<1>3. clean => fields \in Reference[kind]
  OBVIOUS
<1> HIDE DEF clean
<1>4. /\ x.at = "read" /\ x.kind = kind /\ x.fields = fields /\ x.clean = clean
      /\ DOMAIN x = {"at", "kind", "fields", "clean"}
  OBVIOUS
<1> HIDE DEF x
<1>5. Placed(x)
  BY <1>2, <1>4 DEF Placed
<1>6. x.clean => CleanCall(x)
  BY <1>2, <1>3, <1>4 DEF CleanCall
<1> QED
  BY <1>1, <1>5, <1>6, CallMoves

LEMMA ReadForSpecInv == ASSUME ChainInv, NEW c \in Calls, ReadForSpec(c) PROVE ChainInv'
<1>1. ReadRows(c, "spec", Spec(Row("intent")))
  BY DEF ReadForSpec
<1>2. Upstream("spec") \subseteq fresh => Spec(Row("intent")) \in Reference["spec"]
  <2>1. Upstream("spec") \subseteq fresh => Reference["intent"] = {Row("intent")}
    BY FreshRow DEF Upstream
  <2> QED
    BY <2>1 DEF Reference
<1> QED
  BY <1>1, <1>2, ReadRowsInv DEF Kinds

LEMMA ReadForBlueprintInv == ASSUME ChainInv, NEW c \in Calls, ReadForBlueprint(c) PROVE ChainInv'
<1>1. ReadRows(c, "blueprint", Blueprint(Row("spec"), Row("intent"), repo.dna))
  BY DEF ReadForBlueprint
<1>2. Upstream("blueprint") \subseteq fresh =>
         Blueprint(Row("spec"), Row("intent"), repo.dna) \in Reference["blueprint"]
  <2>1. Upstream("blueprint") \subseteq fresh =>
           Reference["intent"] = {Row("intent")} /\ Reference["spec"] = {Row("spec")}
    BY FreshRow DEF Upstream
  <2> QED
    BY <2>1 DEF Reference
<1> QED
  BY <1>1, <1>2, ReadRowsInv DEF Kinds

LEMMA ReadForPlanInv == ASSUME ChainInv, NEW c \in Calls, ReadForPlan(c) PROVE ChainInv'
<1>1. ReadRows(c, "plan", Plan(Row("blueprint"), Row("spec")))
  BY DEF ReadForPlan
<1>2. Upstream("plan") \subseteq fresh => Plan(Row("blueprint"), Row("spec")) \in Reference["plan"]
  <2>1. Upstream("plan") \subseteq fresh =>
           Reference["blueprint"] = {Row("blueprint")} /\ Reference["spec"] = {Row("spec")}
    BY FreshRow DEF Upstream
  <2> QED
    BY <2>1 DEF Reference
<1> QED
  BY <1>1, <1>2, ReadRowsInv DEF Kinds

LEMMA LoadInv == ASSUME ChainInv, NEW c \in Calls, Load(c) PROVE ChainInv'
<1> DEFINE old == call[c]
           x == [at |-> "loaded", kind |-> old.kind, fields |-> old.fields,
                 clean |-> old.clean, loaded |-> row[old.kind]]
<1>1. old.at = "read" /\ Placed(old) /\ (old.clean => CleanCall(old))
  BY DEF Load, ChainInv, Calling, CleanCalls
<1>2. call' = [call EXCEPT ![c] = x] /\ UNCHANGED <<repo, ahead, row, fresh>>
  BY DEF Load, ChainInv, Content
<1> HIDE DEF old
<1>3. /\ x.at = "loaded" /\ x.kind = old.kind /\ x.fields = old.fields /\ x.clean = old.clean
      /\ x.loaded = row[old.kind] /\ DOMAIN x = {"at", "kind", "fields", "clean", "loaded"}
  OBVIOUS
<1> HIDE DEF x
<1>4. Placed(x)
  BY <1>1, <1>3 DEF Placed
<1>5. x.clean => CleanCall(x)
  BY <1>1, <1>3 DEF CleanCall
<1> QED
  BY <1>2, <1>4, <1>5, CallMoves

LEMMA CollideInv == ASSUME ChainInv, NEW c \in Calls, Collide(c) PROVE ChainInv'
<1>1. call' = [call EXCEPT ![c] = Idle] /\ UNCHANGED <<repo, ahead, row, fresh>>
  BY DEF Collide
<1>2. Idle.at = "idle" /\ Placed(Idle)
  BY DEF Idle, Placed
<1> QED
  BY <1>1, <1>2, CallMoves

\* A save makes the row that it writes fresh, if the call is clean, and no other; the
\* calls under way are clean no more.
LEMMA SaveInv == ASSUME ChainInv, NEW c \in Calls, Save(c) PROVE ChainInv'
<1> DEFINE x == call[c]
           kind == x.kind
           One(rows) == CHOOSE r \in rows : TRUE
           saved == IF x.loaded = {} THEN x.fields
                    ELSE Written(One(row[kind]), One(x.loaded), x.fields)
<1>1. x.at = "loaded" /\ Placed(x) /\ kind \in Kinds /\ x.clean \in BOOLEAN
  BY DEF Save, ChainInv, Calling, Placed
<1>2. x.clean => CleanCall(x)
  BY <1>1 DEF ChainInv, CleanCalls
<1>3. /\ row' = [row EXCEPT ![kind] = {saved}]
      /\ fresh' = (fresh \ ({kind} \cup Downstream(kind)))
                  \cup (IF x.clean THEN {kind} ELSE {})
      /\ call' = Disturbed([call EXCEPT ![c] = Idle])
      /\ UNCHANGED <<repo, ahead>>
  BY DEF Save
<1>4. Reference' = Reference
  BY <1>3 DEF Reference
<1>5. x.clean => {saved} = Reference[kind]
  <2> SUFFICES ASSUME x.clean PROVE {saved} = Reference[kind]
    OBVIOUS
  <2>1. x.fields \in Reference[kind] /\ x.loaded = row[kind]
    BY <1>1, <1>2 DEF CleanCall
  <2>2. Columns(x.fields)
    BY <1>1, <2>1, ReferenceColumns
  <2>3. saved = x.fields
    BY <2>1, <2>2, WrittenOver
  <2> QED
    BY <1>1, <2>1, <2>3, ReferenceSingletons
<1> HIDE DEF saved
<1>6. Content'
  <2>1. DOMAIN call' = Calls
    BY <1>3 DEF Disturbed
  <2>2. fresh' \subseteq Kinds /\ DOMAIN row' = Kinds
    BY <1>1, <1>3 DEF ChainInv, Content
  <2> QED
    BY <1>3, <2>1, <2>2 DEF ChainInv, Content
<1>7. Calling' /\ CleanCalls'
  <2>1. Placed(Idle)
    BY DEF Placed, Idle
  <2>2. \A d \in Calls : Placed([call EXCEPT ![c] = Idle][d])
    BY <2>1 DEF ChainInv, Calling, Content
  <2> QED
    BY <1>3, <2>2, DisturbedCalls DEF Calling, CleanCalls
<1>8. FreshFromFresh'
  <2>1. ASSUME NEW k \in fresh', NEW j \in Upstream(k) PROVE j \in fresh'
    <3>1. CASE k = kind
      <4>1. x.clean
        BY <1>1, <1>3, <3>1
      <4>2. j \in fresh
        BY <1>2, <3>1, <4>1 DEF CleanCall
      <4>3. j \notin {kind} \cup Downstream(kind)
        BY <1>1, <3>1 DEF Kinds, Upstream, Downstream
      <4> QED
        BY <1>3, <4>2, <4>3
    <3>2. CASE k # kind
      <4>1. k \in fresh /\ k \notin Downstream(kind)
        BY <1>3, <3>2
      <4>2. j \in fresh /\ k \in Kinds
        BY <4>1 DEF ChainInv, FreshFromFresh, Content
      <4>3. j # kind
        BY <1>1, <4>1, <4>2 DEF Kinds, Upstream, Downstream
      <4>4. j \notin Downstream(kind)
        BY <1>1, <4>1, <4>2 DEF Kinds, Upstream, Downstream
      <4> QED
        BY <1>3, <4>2, <4>3, <4>4
    <3> QED
      BY <3>1, <3>2
  <2> QED
    BY <2>1 DEF FreshFromFresh
<1>9. RegeneratedIsReference'
  <2>1. ASSUME NEW k \in fresh' PROVE row'[k] = Reference[k]
    <3>1. CASE k = kind
      BY <1>1, <1>3, <1>5, <3>1 DEF ChainInv, Content
    <3>2. CASE k # kind
      BY <1>1, <1>3, <3>2 DEF ChainInv, Content, RegeneratedIsReference
    <3> QED
      BY <3>1, <3>2
  <2> QED
    BY <1>4, <2>1 DEF RegeneratedIsReference
<1> QED
  BY <1>6, <1>7, <1>8, <1>9 DEF ChainInv

LEMMA ChainNext == ChainInv /\ [Next]_vars => ChainInv'
<1> SUFFICES ASSUME ChainInv, [Next]_vars PROVE ChainInv'
  OBVIOUS
<1>1. CASE UNCHANGED vars
  BY <1>1 DEF vars, ChainInv, Content, Calling, CleanCalls, CleanCall, FreshFromFresh,
              RegeneratedIsReference, Reference, Placed
<1>2. CASE Next
  BY <1>2, PushInv, ReadRepositoryInv, ReadForSpecInv, ReadForBlueprintInv, ReadForPlanInv,
     LoadInv, SaveInv, CollideInv DEF Next
<1> QED
  BY <1>1, <1>2

LEMMA ChainAlways == Chain => []ChainInv
BY ChainInit, ChainNext, PTL DEF Chain

\* A row regenerated by calls that met no other writer is the one the repository alone
\* determines: the upsert of each generate method writes every field that differs.
THEOREM RegeneratedAlwaysReference == Chain => []RegeneratedIsReference
<1>1. ChainInv => RegeneratedIsReference
  BY DEF ChainInv
<1> QED
  BY <1>1, ChainAlways, PTL

-----------------------------------------------------------------------------
(* Sequences of offers.                                                    *)

Authorities == {"manifest", "CI", "README", "convention"}
Offering(T) == [slot : Slots, by : Authorities, text : T]
Offered(o) == \E T : o \in Seq(Offering(T))
Uniform(o, by) == Offered(o) /\ \A i \in DOMAIN o : o[i].by = by

\* Something is offered for a slot by an authority.
Makes(o, slot, by) == \E i \in DOMAIN o : o[i].slot = slot /\ o[i].by = by

LEMMA OfferedWider ==
    ASSUME NEW o, NEW T, NEW U, T \subseteq U, o \in Seq(Offering(T))
    PROVE  o \in Seq(Offering(U))
<1>1. Offering(T) \subseteq Offering(U)
  BY DEF Offering
<1> QED
  BY <1>1, SeqMonotonic

LEMMA OfferOf ==
    ASSUME NEW o, Offered(o), NEW i \in DOMAIN o
    PROVE  /\ o[i].slot \in Slots /\ o[i].by \in Authorities
           /\ i \in Nat
<1>1. PICK T : o \in Seq(Offering(T))
  BY DEF Offered
<1>2. o[i] \in Offering(T) /\ i \in Nat
  BY <1>1
<1> QED
  BY <1>2 DEF Offering

\* One source after another.
LEMMA Joined ==
    ASSUME NEW o, NEW p, Offered(o), Offered(p)
    PROVE  /\ Offered(o \o p)
           /\ DOMAIN o = 1..Len(o) /\ DOMAIN p = 1..Len(p)
           /\ Len(o) \in Nat /\ Len(p) \in Nat
           /\ DOMAIN (o \o p) = 1..(Len(o) + Len(p))
           /\ \A i \in DOMAIN o : (o \o p)[i] = o[i]
           /\ \A i \in DOMAIN p : (o \o p)[Len(o) + i] = p[i]
<1>1. PICK T : o \in Seq(Offering(T))
  BY DEF Offered
<1>2. PICK U : p \in Seq(Offering(U))
  BY DEF Offered
<1>3. o \in Seq(Offering(T \cup U)) /\ p \in Seq(Offering(T \cup U))
  BY <1>1, <1>2, OfferedWider
<1> DEFINE S == Offering(T \cup U)
<1> HIDE DEF S
<1>4. o \in Seq(S) /\ p \in Seq(S)
  BY <1>3 DEF S
<1>5. o \o p \in Seq(S)
  BY <1>4
<1>6. Offered(o \o p)
  BY <1>5 DEF Offered, S
<1> QED
  BY <1>4, <1>6

LEMMA JoinedRight ==
    ASSUME NEW o, NEW p, Offered(o), Offered(p), NEW i \in DOMAIN (o \o p), i \notin DOMAIN o
    PROVE  \E j \in DOMAIN p : (o \o p)[i] = p[j]
<1>1. i - Len(o) \in DOMAIN p /\ i = Len(o) + (i - Len(o))
  BY Joined
<1>2. (o \o p)[Len(o) + (i - Len(o))] = p[i - Len(o)]
  BY <1>1, Joined
<1> QED
  BY <1>1, <1>2

LEMMA JoinedUniform ==
    ASSUME NEW o, NEW p, NEW by, Uniform(o, by), Uniform(p, by)
    PROVE  Uniform(o \o p, by)
<1>1. Offered(o) /\ Offered(p)
  BY DEF Uniform
<1>2. ASSUME NEW i \in DOMAIN (o \o p) PROVE (o \o p)[i].by = by
  <2>1. CASE i \in DOMAIN o
    BY <1>1, <2>1, Joined DEF Uniform
  <2>2. CASE i \notin DOMAIN o
    BY <1>1, <2>2, JoinedRight DEF Uniform
  <2> QED
    BY <2>1, <2>2
<1> QED
  BY <1>1, <1>2, Joined DEF Uniform

LEMMA JoinedMakes ==
    ASSUME NEW o, NEW p, Offered(o), Offered(p), NEW slot, NEW by
    PROVE  Makes(o \o p, slot, by) <=> Makes(o, slot, by) \/ Makes(p, slot, by)
<1>1. ASSUME Makes(o \o p, slot, by) PROVE Makes(o, slot, by) \/ Makes(p, slot, by)
  <2>1. PICK i \in DOMAIN (o \o p) : (o \o p)[i].slot = slot /\ (o \o p)[i].by = by
    BY <1>1 DEF Makes
  <2>2. CASE i \in DOMAIN o
    BY <2>1, <2>2, Joined DEF Makes
  <2>3. CASE i \notin DOMAIN o
    BY <2>1, <2>3, JoinedRight DEF Makes
  <2> QED
    BY <2>2, <2>3
<1>2. ASSUME Makes(o, slot, by) PROVE Makes(o \o p, slot, by)
  <2>1. PICK i \in DOMAIN o : o[i].slot = slot /\ o[i].by = by
    BY <1>2 DEF Makes
  <2>2. i \in DOMAIN (o \o p) /\ (o \o p)[i] = o[i]
    BY Joined
  <2> QED
    BY <2>1, <2>2 DEF Makes
<1>3. ASSUME Makes(p, slot, by) PROVE Makes(o \o p, slot, by)
  <2>1. PICK i \in DOMAIN p : p[i].slot = slot /\ p[i].by = by
    BY <1>3 DEF Makes
  <2>2. Len(o) + i \in DOMAIN (o \o p) /\ (o \o p)[Len(o) + i] = p[i]
    BY Joined
  <2> QED
    BY <2>1, <2>2 DEF Makes
<1> QED
  BY <1>1, <1>2, <1>3

-----------------------------------------------------------------------------
(* The order of the authorities.                                           *)

LEMMA Ranks ==
    /\ Rank("manifest") = 1 /\ Rank("CI") = 2 /\ Rank("README") = 3
    /\ Rank("convention") = 4 /\ Rank(None) = 5
    /\ \A by \in Authorities : Rank(by) \in 1..4
BY DEF Rank, Authorities, None

Ranked(o) ==
    /\ Offered(o)
    /\ \A i, j \in DOMAIN o : i <= j => Rank(o[i].by) <= Rank(o[j].by)

\* No offer is less binding than a given authority.
UpTo(o, by) == Ranked(o) /\ \A i \in DOMAIN o : Rank(o[i].by) <= Rank(by)

LEMMA UniformUpTo ==
    ASSUME NEW by \in Authorities, NEW o, Uniform(o, by)
    PROVE  UpTo(o, by)
BY Ranks DEF Uniform, UpTo, Ranked

LEMMA JoinedUpTo ==
    ASSUME NEW b1 \in Authorities, NEW b2 \in Authorities, Rank(b1) <= Rank(b2),
           NEW o, NEW p, UpTo(o, b1), Uniform(p, b2)
    PROVE  UpTo(o \o p, b2)
<1>1. Offered(o) /\ Offered(p)
  BY DEF UpTo, Ranked, Uniform
<1> DEFINE R(i) == Rank((o \o p)[i].by)
<1>2. Rank(b1) \in Nat /\ Rank(b2) \in Nat
  BY Ranks
<1>3. ASSUME NEW i \in DOMAIN o PROVE R(i) = Rank(o[i].by) /\ R(i) \in Nat /\ R(i) <= Rank(b2)
  <2>1. R(i) = Rank(o[i].by)
    BY <1>1, Joined
  <2>3. o[i].by \in Authorities
    BY <1>1, OfferOf
  <2>4. Rank(o[i].by) \in Nat
    BY <2>3, Ranks
  <2>5. Rank(o[i].by) <= Rank(b1)
    BY DEF UpTo
  <2> QED
    BY <1>2, <2>1, <2>4, <2>5
<1>4. ASSUME NEW i \in DOMAIN (o \o p), i \notin DOMAIN o PROVE R(i) = Rank(b2)
  BY <1>1, <1>4, JoinedRight DEF Uniform
<1>5. ASSUME NEW i \in DOMAIN (o \o p), NEW j \in DOMAIN (o \o p), i <= j PROVE R(i) <= R(j)
  <2>1. CASE j \in DOMAIN o
    <3>1. i \in DOMAIN o
      BY <1>1, <1>5, <2>1, Joined
    <3> QED
      BY <1>3, <1>5, <2>1, <3>1 DEF UpTo, Ranked
  <2>2. CASE j \notin DOMAIN o
    BY <1>2, <1>3, <1>4, <2>2
  <2> QED
    BY <2>1, <2>2
<1>6. \A i \in DOMAIN (o \o p) : R(i) <= Rank(b2)
  BY <1>2, <1>3, <1>4
<1> QED
  BY <1>1, <1>5, <1>6, Joined DEF UpTo, Ranked

LEMMA EarliestIs ==
    ASSUME NEW S \in SUBSET Nat, S # {}
    PROVE  Earliest(S) \in S /\ \A j \in S : Earliest(S) <= j
BY LeastNumber DEF Earliest

\* What a slot takes was offered for it, and nothing more binding was.
LEMMA TakenFirst ==
    ASSUME NEW o, Ranked(o), NEW s \in Slots
    PROVE  /\ \/ Taken(o)[s] = NoCommand
              \/ Makes(o, s, Taken(o)[s].by)
           /\ \A by : Makes(o, s, by) =>
                 Taken(o)[s].by \in Authorities /\ Rank(Taken(o)[s].by) <= Rank(by)
<1> DEFINE mine == {i \in DOMAIN o : o[i].slot = s}
           first == Earliest(mine)
<1>1. Offered(o)
  BY DEF Ranked
<1>2. mine \in SUBSET Nat
  BY <1>1, OfferOf
<1>3. CASE mine = {}
  <2>1. Taken(o)[s] = NoCommand
    BY <1>3 DEF Taken
  <2>2. \A by : ~Makes(o, s, by)
    BY <1>3 DEF Makes
  <2> QED
    BY <2>1, <2>2
<1>4. CASE mine # {}
  <2>1. first \in mine /\ \A j \in mine : first <= j
    BY <1>2, <1>4, EarliestIs
  <2>2. Taken(o)[s] = [by |-> o[first].by, text |-> o[first].text]
    BY <1>4 DEF Taken
  <2>3. Taken(o)[s].by = o[first].by /\ o[first].by \in Authorities
    BY <1>1, <2>1, <2>2, OfferOf
  <2> HIDE DEF first
  <2>4. Makes(o, s, Taken(o)[s].by)
    BY <2>1, <2>3 DEF Makes
  <2>5. ASSUME NEW by, Makes(o, s, by) PROVE Rank(Taken(o)[s].by) <= Rank(by)
    <3>1. PICK i \in mine : o[i].by = by
      BY <2>5 DEF Makes
    <3> QED
      BY <2>1, <2>3, <3>1 DEF Ranked
  <2> QED
    BY <2>3, <2>4, <2>5
<1> QED
  BY <1>3, <1>4

-----------------------------------------------------------------------------
(* A repository that grows keeps what its files offer.                     *)

Grows(files, more) ==
    DOMAIN files \subseteq DOMAIN more /\ \A n \in DOMAIN files : files[n] = more[n]

\* Two lists of offers by one authority, of which the second has every slot of the first.
Keeps(o, p, by) ==
    Uniform(o, by) /\ Uniform(p, by) /\ \A s : Makes(o, s, by) => Makes(p, s, by)

LEMMA KeepsJoined ==
    ASSUME NEW by, NEW o, NEW p, NEW q, NEW r, Keeps(o, p, by), Keeps(q, r, by)
    PROVE  Keeps(o \o q, p \o r, by)
<1>1. Uniform(o \o q, by) /\ Uniform(p \o r, by)
  BY JoinedUniform DEF Keeps
<1>2. Offered(o) /\ Offered(q) /\ Offered(p) /\ Offered(r)
  BY DEF Keeps, Uniform
<1>3. ASSUME NEW s, Makes(o \o q, s, by) PROVE Makes(p \o r, s, by)
  BY <1>2, <1>3, JoinedMakes DEF Keeps
<1> QED
  BY <1>1, <1>3 DEF Keeps

LEMMA NoOffers == \A by : Uniform(<<>>, by) /\ \A s : ~Makes(<<>>, s, by)
BY DEF Uniform, Offered, Makes

LEMMA OffersMake ==
    ASSUME NEW by \in Authorities, NEW slots \in Seq(Slots), NEW text
    PROVE  /\ Uniform(Offers(slots, by, text), by)
           /\ \A s : Makes(Offers(slots, by, text), s, by) <=> \E i \in DOMAIN slots : slots[i] = s
<1> DEFINE o == Offers(slots, by, text)
<1>1. DOMAIN o = 1..Len(slots) /\ Len(slots) \in Nat
  BY DEF Offers
<1>2. \A i \in DOMAIN o : o[i] = [slot |-> slots[i], by |-> by, text |-> text]
  BY DEF Offers, Offer
<1>3. \A i \in DOMAIN o : slots[i] \in Slots
  BY <1>1
<1>4. o = [i \in 1..Len(slots) |-> o[i]]
  BY <1>1 DEF Offers
<1> HIDE DEF o
<1>5. \A i \in DOMAIN o : o[i] \in Offering({text})
  BY <1>2, <1>3 DEF Offering
<1>6. o \in Seq(Offering({text}))
  <2> DEFINE S == Offering({text})
             n == Len(slots)
  <2> HIDE DEF S, n
  <2>1. n \in Nat /\ o \in [1..n -> S]
    BY <1>1, <1>4, <1>5 DEF S, n
  <2>2. o \in Seq(S)
    BY <2>1
  <2> QED
    BY <2>2 DEF S
<1>7. \A i \in DOMAIN o : o[i].by = by /\ o[i].slot = slots[i]
  BY <1>2
<1>8. DOMAIN o = DOMAIN slots
  BY <1>1
<1> QED
  BY <1>6, <1>7, <1>8 DEF Uniform, Offered, Makes, o

LEMMA WhenMakes ==
    ASSUME NEW by \in Authorities, NEW slots \in Seq(Slots), NEW text, NEW c
    PROVE  /\ Uniform(When(c, Offers(slots, by, text)), by)
           /\ \A s : Makes(When(c, Offers(slots, by, text)), s, by)
                 <=> c /\ \E i \in DOMAIN slots : slots[i] = s
BY OffersMake, NoOffers DEF When

LEMMA WhenKeeps ==
    ASSUME NEW by \in Authorities, NEW slots \in Seq(Slots), NEW t, NEW u,
           NEW c, NEW d, c => d
    PROVE  Keeps(When(c, Offers(slots, by, t)), When(d, Offers(slots, by, u)), by)
BY OffersMake, NoOffers DEF When, Keeps

LEMMA SaysGrows ==
    ASSUME NEW files, NEW more, Grows(files, more), NEW n
    PROVE  /\ Has(files, n) => Has(more, n) /\ Marks(more, n) = Marks(files, n)
           /\ \A m : Says(files, n, m) => Says(more, n, m)
           /\ Parsed(files, n) => Parsed(more, n)
BY DEF Grows, Has, Marks, Says, Parsed

LEMMA TextGrows ==
    ASSUME NEW files, NEW more, Grows(files, more),
           NEW ns, NEW ms, ns \subseteq ms, NEW by \in Authorities
    PROVE  Keeps(TextOffers(files, ns, by), TextOffers(more, ms, by), by)
<1> DEFINE K(s) == Keeps(Quoted(files, ns, by, s), Quoted(more, ms, by, s), by)
<1>1. \A s \in Slots : K(s)
  <2> TAKE s \in Slots
  <2>1. <<s>> \in Seq(Slots)
    OBVIOUS
  <2>2. Found(files, ns, {s}) # {} => Found(more, ms, {s}) # {}
    BY DEF Grows, Found
  <2> QED
    BY <2>1, <2>2, WhenKeeps, Zenon DEF Quoted
<1>2. K("install") /\ K("test") /\ K("build") /\ K("lint") /\ K("dev") /\ K("prod")
  BY <1>1 DEF Slots
<1> QED
  BY <1>2, KeepsJoined, Zenon DEF TextOffers

LEMMA PythonGrows ==
    ASSUME NEW files, NEW more, Grows(files, more)
    PROVE  Keeps(PythonOffers(files), PythonOffers(more), "manifest")
<1>1. /\ PythonSays(files, "pytest") => PythonSays(more, "pytest")
      /\ PythonSays(files, "FastAPI") => PythonSays(more, "FastAPI")
      /\ PythonSays(files, "Django") => PythonSays(more, "Django")
      /\ PythonText(files) => PythonText(more)
  BY DEF PythonSays, PythonText, Grows, Has, Says
<1>2. /\ <<"test">> \in Seq(Slots) /\ <<"dev", "prod">> \in Seq(Slots)
      /\ <<"dev">> \in Seq(Slots) /\ <<"install">> \in Seq(Slots) /\ "manifest" \in Authorities
  BY DEF Slots, Authorities
<1> QED
  BY <1>1, <1>2, WhenKeeps, KeepsJoined, Zenon DEF PythonOffers

LEMMA ScriptGrows ==
    ASSUME NEW files, NEW more, Grows(files, more)
    PROVE  Keeps(ScriptOffers(files), ScriptOffers(more), "manifest")
<1> DEFINE K(slot, names) == Keeps(Script(files, slot, names), Script(more, slot, names), "manifest")
<1>1. ASSUME NEW slot \in Slots, NEW names PROVE K(slot, names)
  <2> DEFINE before == FirstIn(names, Marks(files, "package.json"))
             after == FirstIn(names, Marks(more, "package.json"))
  <2>1. before # None => after # None
    <3>1. CASE Has(files, "package.json")
      BY <3>1, SaysGrows
    <3>2. CASE ~Has(files, "package.json")
      BY <3>2 DEF Marks, FirstIn
    <3> QED
      BY <3>1, <3>2
  <2>2. /\ Script(files, slot, names) = When(before # None, Offers(<<slot>>, "manifest", before))
        /\ Script(more, slot, names) = When(after # None, Offers(<<slot>>, "manifest", after))
    BY DEF Script, Offers, When
  <2>3. <<slot>> \in Seq(Slots) /\ "manifest" \in Authorities
    BY DEF Authorities
  <2> HIDE DEF before, after
  <2> QED
    BY <2>1, <2>2, <2>3, WhenKeeps, Zenon
<1>2. /\ K("dev", <<"dev", "develop", "start:dev">>) /\ K("prod", <<"start", "serve">>)
      /\ K("build", <<"build">>) /\ K("test", <<"test">>) /\ K("lint", <<"lint">>)
  BY <1>1, Zenon DEF Slots
<1> QED
  BY <1>2, KeepsJoined, Zenon DEF ScriptOffers

LEMMA MakeGrows ==
    ASSUME NEW files, NEW more, Grows(files, more)
    PROVE  Keeps(MakeOffers(files), MakeOffers(more), "manifest")
<1> DEFINE K(name, slot) == Keeps(Target(files, name, slot), Target(more, name, slot), "manifest")
<1>1. ASSUME NEW name, NEW slot \in Slots PROVE K(name, slot)
  <2>1. <<slot>> \in Seq(Slots) /\ "manifest" \in Authorities
    BY DEF Authorities
  <2>2. Says(files, "Makefile", name) => Says(more, "Makefile", name)
    BY SaysGrows
  <2> QED
    BY <2>1, <2>2, WhenKeeps, Zenon DEF Target
<1>2. /\ K("install", "install") /\ K("test", "test") /\ K("build", "build")
      /\ K("lint", "lint") /\ K("run", "prod") /\ K("dev", "dev")
  BY <1>1, Zenon DEF Slots
<1> QED
  BY <1>2, KeepsJoined, Zenon DEF MakeOffers

LEMMA ProcfileGrows ==
    ASSUME NEW files, NEW more, Grows(files, more)
    PROVE  Keeps(ProcfileOffers(files), ProcfileOffers(more), "manifest")
<1>1. Says(files, "Procfile", "web") => Says(more, "Procfile", "web")
  BY SaysGrows
<1>2. <<"prod">> \in Seq(Slots) /\ "manifest" \in Authorities
  BY DEF Slots, Authorities
<1> QED
  BY <1>1, <1>2, WhenKeeps, Zenon DEF ProcfileOffers

\* Gradle is looked at where there is no pom.xml, which offers the same slots.
LEMMA CompiledGrows ==
    ASSUME NEW files, NEW more, Grows(files, more), Gradle(files) \subseteq Gradle(more)
    PROVE  Keeps(CompiledOffers(files), CompiledOffers(more), "manifest")
<1> DEFINE four == <<"install", "build", "test", "prod">>
           three == <<"install", "build", "test">>
           pom(f) == When(Has(f, "pom.xml"), Offers(three, "manifest", "mvn"))
           gradle(f) == When(Gradle(f) # {} /\ ~Has(f, "pom.xml"),
                             Offers(three, "manifest", "gradle"))
           java(f) == pom(f) \o gradle(f)
           go(f) == When(Has(f, "go.mod"), Offers(four, "manifest", "go"))
           cargo(f) == When(Has(f, "Cargo.toml"), Offers(four, "manifest", "cargo"))
           spring(f) == When(Found(f, JavaTexts(f), {"Spring Boot"}) # {},
                             Offers(<<"prod">>, "manifest", "java"))
<1>1. /\ four \in Seq(Slots) /\ three \in Seq(Slots) /\ <<"prod">> \in Seq(Slots)
      /\ "manifest" \in Authorities
  BY DEF Slots, Authorities
<1>2. /\ \A n : Has(files, n) => Has(more, n)
      /\ Gradle(files) # {} => Gradle(more) # {}
      /\ Found(files, JavaTexts(files), {"Spring Boot"}) # {}
            => Found(more, JavaTexts(more), {"Spring Boot"}) # {}
  BY DEF Grows, Has, Found, JavaTexts
<1> HIDE DEF four, three
<1>3. Keeps(go(files), go(more), "manifest") /\ Keeps(cargo(files), cargo(more), "manifest")
  BY <1>1, <1>2, WhenKeeps, Zenon
<1>4. Keeps(spring(files), spring(more), "manifest")
  BY <1>1, <1>2, WhenKeeps, Zenon
<1>5. ASSUME NEW f
      PROVE  /\ Uniform(pom(f), "manifest") /\ Uniform(gradle(f), "manifest")
             /\ \A s : Makes(pom(f), s, "manifest") \/ Makes(gradle(f), s, "manifest")
                   <=> /\ Has(f, "pom.xml") \/ Gradle(f) # {}
                       /\ \E i \in DOMAIN three : three[i] = s
  <2>1. /\ Uniform(pom(f), "manifest")
        /\ \A s : Makes(pom(f), s, "manifest")
              <=> Has(f, "pom.xml") /\ \E i \in DOMAIN three : three[i] = s
    BY <1>1, WhenMakes, Zenon
  <2>2. /\ Uniform(gradle(f), "manifest")
        /\ \A s : Makes(gradle(f), s, "manifest")
              <=> /\ Gradle(f) # {} /\ ~Has(f, "pom.xml")
                  /\ \E i \in DOMAIN three : three[i] = s
    BY <1>1, WhenMakes, Zenon
  <2> HIDE DEF pom, gradle
  <2> QED
    BY <2>1, <2>2
<1> HIDE DEF pom, gradle
<1>6. ASSUME NEW f
      PROVE  /\ Uniform(java(f), "manifest")
             /\ \A s : Makes(java(f), s, "manifest")
                   <=> /\ Has(f, "pom.xml") \/ Gradle(f) # {}
                       /\ \E i \in DOMAIN three : three[i] = s
  BY <1>5, JoinedUniform, JoinedMakes DEF Uniform
<1>7. Keeps(java(files), java(more), "manifest")
  BY <1>2, <1>6 DEF Keeps
<1>8. ASSUME NEW f, Uniform(go(f), "manifest"), Uniform(cargo(f), "manifest"),
             Uniform(spring(f), "manifest")
      PROVE  CompiledOffers(f) = (go(f) \o cargo(f)) \o java(f) \o spring(f)
  <2>1. CompiledOffers(f) = go(f) \o cargo(f) \o pom(f) \o gradle(f) \o spring(f)
    BY Zenon DEF CompiledOffers, pom, gradle, four, three
  <2> HIDE DEF go, cargo, spring
  <2>2. Offered(go(f) \o cargo(f)) /\ Offered(pom(f)) /\ Offered(gradle(f))
    BY <1>5, <1>8, JoinedUniform DEF Uniform
  <2>3. ASSUME NEW a, NEW b, NEW c, Offered(a), Offered(b), Offered(c)
        PROVE  a \o b \o c = a \o (b \o c)
    <3>1. PICK T : a \in Seq(Offering(T))
      BY <2>3 DEF Offered
    <3>2. PICK U : b \in Seq(Offering(U))
      BY <2>3 DEF Offered
    <3>3. PICK V : c \in Seq(Offering(V))
      BY <2>3 DEF Offered
    <3> DEFINE S == Offering(T \cup U \cup V)
    <3>4. a \in Seq(S) /\ b \in Seq(S) /\ c \in Seq(S)
      BY <3>1, <3>2, <3>3, OfferedWider
    <3> HIDE DEF S
    <3> QED
      BY <3>4, ConcatAssociative
  <2> QED
    BY <2>1, <2>2, <2>3
<1> HIDE DEF java, go, cargo, spring
<1>9. /\ CompiledOffers(files) = (go(files) \o cargo(files)) \o java(files) \o spring(files)
      /\ CompiledOffers(more) = (go(more) \o cargo(more)) \o java(more) \o spring(more)
  BY <1>3, <1>4, <1>8 DEF Keeps
<1> QED
  BY <1>3, <1>4, <1>7, <1>9, KeepsJoined, Zenon

LEMMA ScriptedGrows ==
    ASSUME NEW files, NEW more, Grows(files, more)
    PROVE  Keeps(ScriptedOffers(files), ScriptedOffers(more), "manifest")
<1>1. /\ <<"install">> \in Seq(Slots) /\ <<"dev">> \in Seq(Slots) /\ <<"test">> \in Seq(Slots)
      /\ "manifest" \in Authorities
  BY DEF Slots, Authorities
<1>2. /\ Parsed(files, "composer.json") => Parsed(more, "composer.json")
      /\ Has(files, "Gemfile") => Has(more, "Gemfile")
      /\ Says(files, "composer.json", "Laravel") => Says(more, "composer.json", "Laravel")
      /\ Says(files, "Gemfile", "Ruby on Rails") => Says(more, "Gemfile", "Ruby on Rails")
      /\ Says(files, "Gemfile", "rspec") => Says(more, "Gemfile", "rspec")
  BY SaysGrows
<1>3. PackagedPython \cap DOMAIN files # {} => PackagedPython \cap DOMAIN more # {}
  BY DEF Grows
<1> DEFINE one(f) == When(Parsed(f, "composer.json"), Offers(<<"install">>, "manifest", "composer"))
           two(f) == When(Says(f, "composer.json", "Laravel"), Offers(<<"dev">>, "manifest", "artisan"))
           three(f) == When(Has(f, "Gemfile"), Offers(<<"install">>, "manifest", "bundle"))
           four(f) == When(Says(f, "Gemfile", "Ruby on Rails"), Offers(<<"dev">>, "manifest", "rails"))
           five(f) == When(Says(f, "Gemfile", "rspec"), Offers(<<"test">>, "manifest", "rspec"))
           tool(f) == IF Has(f, "Pipfile") THEN "pipenv" ELSE "pip"
           six(f) == When(PackagedPython \cap DOMAIN f # {}, Offers(<<"install">>, "manifest", tool(f)))
<1>4. \A f : ScriptedOffers(f) = one(f) \o two(f) \o three(f) \o four(f) \o five(f) \o six(f)
  BY Zenon DEF ScriptedOffers
<1>5. Keeps(one(files), one(more), "manifest") /\ Keeps(two(files), two(more), "manifest")
  BY <1>1, <1>2, WhenKeeps, Zenon
<1>6. Keeps(three(files), three(more), "manifest") /\ Keeps(four(files), four(more), "manifest")
  BY <1>1, <1>2, WhenKeeps, Zenon
<1>7. Keeps(five(files), five(more), "manifest")
  BY <1>1, <1>2, WhenKeeps, Zenon
<1> HIDE DEF tool
<1>8. Keeps(six(files), six(more), "manifest")
  BY <1>1, <1>3, WhenKeeps, Zenon
<1> HIDE DEF one, two, three, four, five, six
<1> QED
  BY <1>4, <1>5, <1>6, <1>7, <1>8, KeepsJoined, Zenon

LEMMA ManifestGrows ==
    ASSUME NEW files, NEW more, Grows(files, more), Gradle(files) \subseteq Gradle(more)
    PROVE  Keeps(ManifestOffers(files), ManifestOffers(more), "manifest")
<1> DEFINE install(f) == When(Parsed(f, "package.json"),
                              Offers(<<"install">>, "manifest", FirstOf(Managers(f))))
<1>1. Keeps(install(files), install(more), "manifest")
  <2>1. <<"install">> \in Seq(Slots) /\ "manifest" \in Authorities
    BY DEF Slots, Authorities
  <2>2. Parsed(files, "package.json") => Parsed(more, "package.json")
    BY SaysGrows
  <2> QED
    BY <2>1, <2>2, WhenKeeps, Zenon
<1>2. \A f : ManifestOffers(f) = ScriptOffers(f) \o PythonOffers(f) \o install(f) \o MakeOffers(f)
                                   \o ProcfileOffers(f) \o CompiledOffers(f) \o ScriptedOffers(f)
  BY Zenon DEF ManifestOffers
<1> HIDE DEF install
<1> QED
  BY <1>1, <1>2, ScriptGrows, PythonGrows, MakeGrows, ProcfileGrows, CompiledGrows, ScriptedGrows,
     KeepsJoined, Zenon

LEMMA AllOffersUpTo == ASSUME NEW files, NEW tree PROVE UpTo(AllOffers(files, tree), "convention")
<1> DEFINE m == ManifestOffers(files)
           w == TextOffers(files, ReadWorkflows(files), "CI")
           r == TextOffers(files, {"README.md"}, "README")
           c == SourceOffers(files)
           t == StaticOffers(files, tree)
<1>1. "manifest" \in Authorities /\ "CI" \in Authorities /\ "README" \in Authorities
      /\ "convention" \in Authorities /\ Grows(files, files)
  BY DEF Authorities, Grows
<1>2. Uniform(m, "manifest") /\ Uniform(w, "CI") /\ Uniform(r, "README")
  BY <1>1, ManifestGrows, TextGrows DEF Keeps
<1>3. Uniform(c, "convention") /\ Uniform(t, "convention")
  <2>1. <<"dev", "prod">> \in Seq(Slots)
    BY DEF Slots
  <2> QED
    BY <1>1, <2>1, WhenMakes, Zenon DEF SourceOffers, StaticOffers
<1>4. AllOffers(files, tree) = m \o w \o r \o c \o t
  BY DEF AllOffers
<1> HIDE DEF m, w, r, c, t
<1>5. UpTo(m \o w, "CI")
  BY <1>1, <1>2, UniformUpTo, JoinedUpTo, Ranks
<1>6. UpTo(m \o w \o r, "README")
  BY <1>1, <1>2, <1>5, JoinedUpTo, Ranks
<1>7. UpTo(m \o w \o r \o c, "convention")
  BY <1>1, <1>3, <1>6, JoinedUpTo, Ranks
<1>8. UpTo(m \o w \o r \o c \o t, "convention")
  BY <1>1, <1>3, <1>7, JoinedUpTo, Ranks
<1> QED
  BY <1>4, <1>8

\* What is not a convention is still offered when files are added that hide none.
LEMMA AllOffersGrow ==
    ASSUME NEW files, NEW more, Grows(files, more), Gradle(files) \subseteq Gradle(more),
           ReadWorkflows(files) \subseteq ReadWorkflows(more), NEW tree, NEW taller,
           NEW s, NEW by, by # "convention", Makes(AllOffers(files, tree), s, by)
    PROVE  Makes(AllOffers(more, taller), s, by)
<1> DEFINE m(f) == ManifestOffers(f)
           w(f) == TextOffers(f, ReadWorkflows(f), "CI")
           r(f) == TextOffers(f, {"README.md"}, "README")
           c(f) == SourceOffers(f)
           t(f, g) == StaticOffers(f, g)
<1>1. "CI" \in Authorities /\ "README" \in Authorities /\ "convention" \in Authorities
  BY DEF Authorities
<1>2. /\ Keeps(m(files), m(more), "manifest") /\ Keeps(w(files), w(more), "CI")
      /\ Keeps(r(files), r(more), "README")
  BY <1>1, ManifestGrows, TextGrows
<1>3. \A f, g : Uniform(c(f), "convention") /\ Uniform(t(f, g), "convention")
  <2>1. <<"dev", "prod">> \in Seq(Slots)
    BY DEF Slots
  <2> QED
    BY <1>1, <2>1, WhenMakes, Zenon DEF SourceOffers, StaticOffers
<1>4. \A f, g : AllOffers(f, g) = m(f) \o w(f) \o r(f) \o c(f) \o t(f, g)
  BY DEF AllOffers
<1> HIDE DEF m, w, r, c, t
<1>5. ASSUME NEW f, NEW g, Offered(m(f)), Offered(w(f)), Offered(r(f))
      PROVE  Makes(AllOffers(f, g), s, by)
                <=> Makes(m(f), s, by) \/ Makes(w(f), s, by) \/ Makes(r(f), s, by)
  <2>1. Offered(c(f)) /\ Offered(t(f, g)) /\ ~Makes(c(f), s, by) /\ ~Makes(t(f, g), s, by)
    BY <1>3 DEF Uniform, Makes
  <2>2. /\ Offered(m(f) \o w(f)) /\ Offered(m(f) \o w(f) \o r(f))
        /\ Offered(m(f) \o w(f) \o r(f) \o c(f))
    BY <1>5, <2>1, Joined
  <2>3. Makes(m(f) \o w(f), s, by) <=> Makes(m(f), s, by) \/ Makes(w(f), s, by)
    BY <1>5, JoinedMakes
  <2>4. Makes(m(f) \o w(f) \o r(f), s, by) <=> Makes(m(f) \o w(f), s, by) \/ Makes(r(f), s, by)
    BY <1>5, <2>2, JoinedMakes
  <2>5. Makes(m(f) \o w(f) \o r(f) \o c(f), s, by) <=> Makes(m(f) \o w(f) \o r(f), s, by)
    BY <2>1, <2>2, JoinedMakes
  <2>6. Makes(m(f) \o w(f) \o r(f) \o c(f) \o t(f, g), s, by)
           <=> Makes(m(f) \o w(f) \o r(f) \o c(f), s, by)
    BY <2>1, <2>2, JoinedMakes
  <2> QED
    BY <1>4, <2>3, <2>4, <2>5, <2>6
<1>6. ASSUME NEW o, NEW p, NEW b, Keeps(o, p, b), Makes(o, s, by) PROVE Makes(p, s, by)
  <2>1. b = by
    BY <1>6 DEF Keeps, Uniform, Makes
  <2> QED
    BY <1>6, <2>1 DEF Keeps
<1>7. /\ Offered(m(files)) /\ Offered(w(files)) /\ Offered(r(files))
      /\ Offered(m(more)) /\ Offered(w(more)) /\ Offered(r(more))
  BY <1>2 DEF Keeps, Uniform
<1>8. Makes(m(files), s, by) \/ Makes(w(files), s, by) \/ Makes(r(files), s, by)
  BY <1>5, <1>7
<1>9. Makes(m(more), s, by) \/ Makes(w(more), s, by) \/ Makes(r(more), s, by)
  BY <1>2, <1>6, <1>8
<1> QED
  BY <1>5, <1>7, <1>9

\* The defaults of a language fill blanks.
LEMMA CommandsOf ==
    ASSUME NEW files, NEW tree, NEW dna, NEW s \in Slots
    PROVE  LET found == Taken(AllOffers(files, SeenTree(files, tree, dna)))
               commands == Intent(files, tree, dna).commands
           IN \/ commands[s] = found[s]
              \/ found[s] = NoCommand /\ commands[s].by = "convention"
BY DEF Intent, WithDefaults

\* What a slot ends up with, against what was offered for it.
LEMMA CommandsBest ==
    ASSUME NEW files, NEW tree, NEW dna, NEW s \in Slots
    PROVE  LET offers == AllOffers(files, SeenTree(files, tree, dna))
               by == Intent(files, tree, dna).commands[s].by
           IN /\ by \in Authorities \cup {None}
              /\ by \in Authorities \ {"convention"} => Makes(offers, s, by)
              /\ \A b : Makes(offers, s, b) => Rank(by) <= Rank(b)
<1> DEFINE offers == AllOffers(files, SeenTree(files, tree, dna))
           found == Taken(offers)
           commands == Intent(files, tree, dna).commands
<1>1. Ranked(offers)
  BY AllOffersUpTo DEF UpTo
<1>2. \/ commands[s] = found[s]
      \/ found[s] = NoCommand /\ commands[s].by = "convention"
  BY CommandsOf
<1> HIDE DEF offers, commands
<1>3. /\ found[s] = NoCommand \/ Makes(offers, s, found[s].by)
      /\ \A b : Makes(offers, s, b) =>
            found[s].by \in Authorities /\ Rank(found[s].by) <= Rank(b)
  BY <1>1, TakenFirst
<1> HIDE DEF found
<1>4. NoCommand.by = None /\ None \notin Authorities /\ "convention" \in Authorities
  BY DEF NoCommand, None, Authorities
<1>5. \A b : Makes(offers, s, b) => b \in Authorities
  BY <1>1, OfferOf DEF Makes, Ranked
<1>6. CASE found[s] = NoCommand
  <2>1. \A b : ~Makes(offers, s, b)
    BY <1>3, <1>4, <1>6
  <2>2. commands[s].by \in {None, "convention"}
    BY <1>2, <1>4, <1>6
  <2> QED
    BY <1>4, <2>1, <2>2 DEF offers, commands
<1>7. CASE found[s] # NoCommand
  BY <1>2, <1>3, <1>5, <1>7 DEF offers, commands
<1> QED
  BY <1>6, <1>7

\* Whatever the repository has, a slot takes the most binding command that is offered
\* for it: the order in which build_intent looks at its sources.
THEOREM DeclaredAlwaysWins == Chain => []DeclaredWins
<1>1. ChainInv => DeclaredWins
  <2> SUFFICES ASSUME ChainInv, "intent" \in fresh PROVE DeclaredWins
    BY DEF DeclaredWins
  <2> DEFINE intent == Intent(repo.files, repo.tree, repo.dna)
             offers == AllOffers(repo.files, SeenTree(repo.files, repo.tree, repo.dna))
  <2>1. Row("intent") = intent
    BY FreshRow DEF Reference
  <2>2. Offered(offers)
    BY AllOffersUpTo DEF UpTo, Ranked
  <2>3. ASSUME NEW i \in DOMAIN offers
        PROVE  Rank(intent.commands[offers[i].slot].by) <= Rank(offers[i].by)
    <3>1. offers[i].slot \in Slots
      BY <2>2, OfferOf
    <3>2. Makes(offers, offers[i].slot, offers[i].by)
      BY DEF Makes
    <3> QED
      BY <3>1, <3>2, CommandsBest
  <2> QED
    BY <2>1, <2>3 DEF DeclaredWins
<1> QED
  BY <1>1, ChainAlways, PTL

\* Files that a repository gains, whatever they are, take no declared command away:
\* every source offers what it offered, or gives way to one as binding.  There are two
\* exceptions and no third: a workflow with a run: line beside workflows without one
\* (setup_intent_reader.py:617-620), and a build.gradle beside a build.gradle.kts (:450).
THEOREM AddingAlwaysKeeps == Chain => AddingKeepsDeclared
<1>1. DeclaredKept
  <2> SUFFICES ASSUME AddsFiles, HidesNothing, NEW s \in Slots,
                      Intent(repo.files, repo.tree, repo.dna).commands[s].by # "convention"
               PROVE  Rank(Intent(repo'.files, repo'.tree, repo'.dna).commands[s].by)
                          <= Rank(Intent(repo.files, repo.tree, repo.dna).commands[s].by)
    BY DEF DeclaredKept
  <2> DEFINE before == Intent(repo.files, repo.tree, repo.dna).commands[s].by
             after == Intent(repo'.files, repo'.tree, repo'.dna).commands[s].by
             old == AllOffers(repo.files, SeenTree(repo.files, repo.tree, repo.dna))
             new == AllOffers(repo'.files, SeenTree(repo'.files, repo'.tree, repo'.dna))
  <2>1. Grows(repo.files, repo'.files)
    BY DEF AddsFiles, Grows
  <2>2. /\ before \in Authorities \cup {None}
        /\ before \in Authorities \ {"convention"} => Makes(old, s, before)
    BY CommandsBest
  <2>3. /\ after \in Authorities \cup {None}
        /\ \A b : Makes(new, s, b) => Rank(after) <= Rank(b)
    BY CommandsBest
  <2>4. before # "convention" /\ Makes(old, s, before) => Makes(new, s, before)
    BY <2>1, AllOffersGrow DEF HidesNothing
  <2> HIDE DEF before, after, old, new
  <2>5. before # "convention"
    BY DEF before
  <2>6. CASE before = None
    BY <2>3, <2>6, Ranks DEF before, after
  <2>7. CASE before # None
    BY <2>2, <2>3, <2>4, <2>5, <2>7 DEF before, after
  <2> QED
    BY <2>6, <2>7
<1> QED
  BY <1>1, PTL DEF AddingKeepsDeclared

-----------------------------------------------------------------------------
(* Readiness.                                                              *)

\* What a check adds, and the points of a list of them, check after check.
Worth(check) == IF check[1] THEN check[2] ELSE 0

LEMMA PointsOf ==
    ASSUME NEW checks \in Seq(BOOLEAN \X Nat), NEW n, n = Len(checks)
    PROVE  \E f : /\ f[0] = 0 /\ \A i \in 1 .. n : f[i] = f[i - 1] + Worth(checks[i])
                  /\ Points(checks) = f[n]
<1> DEFINE v == [i \in 1 .. n |-> Worth(checks[i])]
           sum == CHOOSE f : f = [i \in 0..Len(checks) |->
                              IF i = 0 THEN 0
                              ELSE f[i - 1] + (IF checks[i][1] THEN checks[i][2] ELSE 0)]
<1>1. Points(checks) = sum[n]
  BY Zenon DEF Points
<1>2. n \in Nat
  OBVIOUS
<1>3. v \in [1 .. n -> Nat]
  <2>1. ASSUME NEW i \in 1 .. n PROVE Worth(checks[i]) \in Nat
    <3>1. i \in 1 .. Len(checks)
      OBVIOUS
    <3>2. checks[i] \in BOOLEAN \X Nat
      BY <3>1, ElementOfSeq, Zenon
    <3> QED
      BY <3>2 DEF Worth
  <2> QED
    BY <2>1
<1>4. \A i \in 1 .. n : v[i] = Worth(checks[i])
  OBVIOUS
<1> HIDE DEF v
<1>5. ASSUME NEW f
      PROVE  [i \in 0..Len(checks) |->
                IF i = 0 THEN 0 ELSE f[i - 1] + (IF checks[i][1] THEN checks[i][2] ELSE 0)]
             = [i \in 0 .. n |-> IF i = 0 THEN 0 ELSE f[i - 1] + v[i]]
  BY <1>2, <1>4 DEF Worth
<1>6. sum = CHOOSE f : f = [i \in 0 .. n |-> IF i = 0 THEN 0 ELSE f[i - 1] + v[i]]
  BY <1>5
<1>7. \E f : f = [i \in 0 .. n |-> IF i = 0 THEN 0 ELSE f[i - 1] + v[i]]
  BY <1>2, <1>3, SummingIs, Zenon DEF Summing
<1>8. sum = [i \in 0 .. n |-> IF i = 0 THEN 0 ELSE sum[i - 1] + v[i]]
  BY <1>6, <1>7, Zenon
<1> HIDE DEF sum
<1>9. sum[0] = 0
  BY <1>2, <1>8
<1>10. ASSUME NEW i \in 1 .. n PROVE sum[i] = sum[i - 1] + Worth(checks[i])
  <2>1. i \in 0 .. n /\ i # 0
    BY <1>2
  <2> QED
    BY <1>4, <1>8, <2>1
<1> QED
  BY <1>1, <1>9, <1>10

LEMMA PointsOfSeven ==
    ASSUME NEW a \in [1 .. 7 -> BOOLEAN], NEW w \in [1 .. 7 -> Nat]
    PROVE  Points(<< <<a[1], w[1]>>, <<a[2], w[2]>>, <<a[3], w[3]>>, <<a[4], w[4]>>,
                     <<a[5], w[5]>>, <<a[6], w[6]>>, <<a[7], w[7]>> >>)
             = Worth(<<a[1], w[1]>>) + Worth(<<a[2], w[2]>>) + Worth(<<a[3], w[3]>>)
               + Worth(<<a[4], w[4]>>) + Worth(<<a[5], w[5]>>) + Worth(<<a[6], w[6]>>)
               + Worth(<<a[7], w[7]>>)
<1> DEFINE checks == << <<a[1], w[1]>>, <<a[2], w[2]>>, <<a[3], w[3]>>, <<a[4], w[4]>>,
                     <<a[5], w[5]>>, <<a[6], w[6]>>, <<a[7], w[7]>> >>
<1>1. checks \in Seq(BOOLEAN \X Nat) /\ Len(checks) = 7
  OBVIOUS
<1>2. /\ checks[1] = <<a[1], w[1]>> /\ checks[2] = <<a[2], w[2]>> /\ checks[3] = <<a[3], w[3]>>
      /\ checks[4] = <<a[4], w[4]>> /\ checks[5] = <<a[5], w[5]>> /\ checks[6] = <<a[6], w[6]>>
      /\ checks[7] = <<a[7], w[7]>>
  OBVIOUS
<1> HIDE DEF checks
<1>3. PICK f : /\ f[0] = 0 /\ \A i \in 1 .. 7 : f[i] = f[i - 1] + Worth(checks[i])
               /\ Points(checks) = f[7]
  BY <1>1, PointsOf
<1>4. \A i \in 1 .. 7 : Worth(<<a[i], w[i]>>) \in Nat
  BY DEF Worth
<1>5. /\ f[1] = f[0] + Worth(<<a[1], w[1]>>) /\ f[2] = f[1] + Worth(<<a[2], w[2]>>)
      /\ f[3] = f[2] + Worth(<<a[3], w[3]>>) /\ f[4] = f[3] + Worth(<<a[4], w[4]>>)
      /\ f[5] = f[4] + Worth(<<a[5], w[5]>>) /\ f[6] = f[5] + Worth(<<a[6], w[6]>>)
      /\ f[7] = f[6] + Worth(<<a[7], w[7]>>)
  BY <1>2, <1>3
<1> QED
  BY <1>3, <1>4, <1>5 DEF checks

LEMMA PointsOfSix ==
    ASSUME NEW a \in [1 .. 6 -> BOOLEAN], NEW w \in [1 .. 6 -> Nat]
    PROVE  Points(<< <<a[1], w[1]>>, <<a[2], w[2]>>, <<a[3], w[3]>>, <<a[4], w[4]>>,
                     <<a[5], w[5]>>, <<a[6], w[6]>> >>)
             = Worth(<<a[1], w[1]>>) + Worth(<<a[2], w[2]>>) + Worth(<<a[3], w[3]>>)
               + Worth(<<a[4], w[4]>>) + Worth(<<a[5], w[5]>>) + Worth(<<a[6], w[6]>>)
<1> DEFINE checks == << <<a[1], w[1]>>, <<a[2], w[2]>>, <<a[3], w[3]>>, <<a[4], w[4]>>,
                     <<a[5], w[5]>>, <<a[6], w[6]>> >>
<1>1. checks \in Seq(BOOLEAN \X Nat) /\ Len(checks) = 6
  OBVIOUS
<1>2. /\ checks[1] = <<a[1], w[1]>> /\ checks[2] = <<a[2], w[2]>> /\ checks[3] = <<a[3], w[3]>>
      /\ checks[4] = <<a[4], w[4]>> /\ checks[5] = <<a[5], w[5]>> /\ checks[6] = <<a[6], w[6]>>
  OBVIOUS
<1> HIDE DEF checks
<1>3. PICK f : /\ f[0] = 0 /\ \A i \in 1 .. 6 : f[i] = f[i - 1] + Worth(checks[i])
               /\ Points(checks) = f[6]
  BY <1>1, PointsOf
<1>4. \A i \in 1 .. 6 : Worth(<<a[i], w[i]>>) \in Nat
  BY DEF Worth
<1>5. /\ f[1] = f[0] + Worth(<<a[1], w[1]>>) /\ f[2] = f[1] + Worth(<<a[2], w[2]>>)
      /\ f[3] = f[2] + Worth(<<a[3], w[3]>>) /\ f[4] = f[3] + Worth(<<a[4], w[4]>>)
      /\ f[5] = f[4] + Worth(<<a[5], w[5]>>) /\ f[6] = f[5] + Worth(<<a[6], w[6]>>)
  BY <1>2, <1>3
<1> QED
  BY <1>3, <1>4, <1>5 DEF checks

\* The readiness of a blueprint, from its seven checks.
LEMMA ReadinessCounts ==
    ASSUME NEW spec, spec.health \in BOOLEAN, NEW hasEnv \in BOOLEAN, NEW hasDocker \in BOOLEAN
    PROVE  /\ Readiness(spec, hasEnv, hasDocker) \in 0 .. 100
           /\ spec.commands["install"] # NoCommand \/ spec.manager # None =>
                 Readiness(spec, hasEnv, hasDocker) > 0
<1> DEFINE b1 == spec.commands["install"] # NoCommand
           b2 == Runs(spec.commands)
           b3 == spec.manager # None
           b4 == spec.commands["test"] # NoCommand
           b6 == spec.health
           a == [i \in 1 .. 7 |-> IF i = 1 THEN b1 ELSE IF i = 2 THEN b2 ELSE IF i = 3 THEN b3
                                  ELSE IF i = 4 THEN b4 ELSE IF i = 5 THEN hasDocker
                                  ELSE IF i = 6 THEN b6 ELSE hasEnv]
           w == [i \in 1 .. 7 |-> IF i \in 1 .. 2 THEN 20 ELSE IF i \in 3 .. 4 THEN 15 ELSE 10]
           checks == << <<b1, 20>>, <<b2, 20>>, <<b3, 15>>, <<b4, 15>>,
                        <<hasDocker, 10>>, <<b6, 10>>, <<hasEnv, 10>> >>
<1>1. Readiness(spec, hasEnv, hasDocker) = Points(checks)
  BY Zenon DEF Readiness
<1>2. b1 \in BOOLEAN /\ b2 \in BOOLEAN /\ b3 \in BOOLEAN /\ b4 \in BOOLEAN /\ b6 \in BOOLEAN
  BY DEF Runs
<1> HIDE DEF b1, b2, b3, b4, b6
<1>3. a \in [1 .. 7 -> BOOLEAN] /\ w \in [1 .. 7 -> Nat]
  BY <1>2
<1>4. /\ a[1] = b1 /\ a[2] = b2 /\ a[3] = b3 /\ a[4] = b4 /\ a[5] = hasDocker /\ a[6] = b6
      /\ a[7] = hasEnv
      /\ w[1] = 20 /\ w[2] = 20 /\ w[3] = 15 /\ w[4] = 15 /\ w[5] = 10 /\ w[6] = 10 /\ w[7] = 10
  OBVIOUS
<1> HIDE DEF a, w
<1>5. Points(checks) = Worth(<<a[1], w[1]>>) + Worth(<<a[2], w[2]>>) + Worth(<<a[3], w[3]>>)
                       + Worth(<<a[4], w[4]>>) + Worth(<<a[5], w[5]>>) + Worth(<<a[6], w[6]>>)
                       + Worth(<<a[7], w[7]>>)
  BY <1>3, <1>4, PointsOfSeven
<1>6. Points(checks) = Worth(<<b1, 20>>) + Worth(<<b2, 20>>) + Worth(<<b3, 15>>)
                       + Worth(<<b4, 15>>) + Worth(<<hasDocker, 10>>) + Worth(<<b6, 10>>)
                       + Worth(<<hasEnv, 10>>)
  BY <1>4, <1>5, Zenon
<1>7. \A x \in BOOLEAN : \A n \in {10, 15, 20} :
         Worth(<<x, n>>) \in 0 .. n /\ (x => Worth(<<x, n>>) = n)
  BY DEF Worth
<1> HIDE DEF checks
<1>8. /\ Worth(<<b1, 20>>) \in 0 .. 20 /\ Worth(<<b2, 20>>) \in 0 .. 20
      /\ Worth(<<b3, 15>>) \in 0 .. 15 /\ Worth(<<b4, 15>>) \in 0 .. 15
      /\ Worth(<<hasDocker, 10>>) \in 0 .. 10 /\ Worth(<<b6, 10>>) \in 0 .. 10
      /\ Worth(<<hasEnv, 10>>) \in 0 .. 10
      /\ b1 => Worth(<<b1, 20>>) = 20
      /\ b3 => Worth(<<b3, 15>>) = 15
  BY <1>2, <1>7
<1>9. Points(checks) \in 0 .. 100 /\ (b1 \/ b3 => Points(checks) > 0)
  BY <1>6, <1>8
<1> QED
  BY <1>1, <1>9 DEF b1, b3

\* With a main language that has defaults there is a manager, or a command to install.
LEMMA IntentReady ==
    ASSUME NEW files, NEW tree, NEW dna,
           DefaultManager(PrimaryRuntime(Intent(files, tree, dna).languages)) # None
    PROVE  LET intent == Intent(files, tree, dna)
           IN intent.manager # None \/ intent.commands["install"] # NoCommand
<1> DEFINE seen == SeenTree(files, tree, dna)
           language == PrimaryRuntime(Languages(files, seen, dna))
           found == Taken(AllOffers(files, seen))
           listed == FirstOf(Managers(files))
           bare == language # None /\ Bare(listed, found)
           intent == Intent(files, tree, dna)
<1>1. intent.languages = Languages(files, seen, dna)
  BY DEF Intent
<1>2. /\ intent.manager = IF bare THEN DefaultManager(language) ELSE listed
      /\ ~bare => intent.commands = found
  BY DEF Intent
<1>3. DefaultManager(language) # None /\ language # None
  BY <1>1 DEF DefaultManager, None
<1> HIDE DEF intent, language, found, listed
<1>4. CASE bare
  BY <1>2, <1>3, <1>4 DEF intent
<1>5. CASE ~bare
  BY <1>2, <1>3, <1>5 DEF intent, Bare
<1> QED
  BY <1>4, <1>5

\* A repository whose main language has defaults is never planned as unready: where
\* nothing was found the defaults bring their manager, which the builder counts.
THEOREM DetectedAlwaysReady == Chain => []DetectedIsReady
<1>1. ChainInv => DetectedIsReady
  <2> SUFFICES ASSUME ChainInv, "blueprint" \in fresh,
                      DefaultManager(PrimaryRuntime(Row("intent").languages)) # None
               PROVE  Row("blueprint").readiness > 0
    BY DEF DetectedIsReady
  <2> DEFINE intent == Intent(repo.files, repo.tree, repo.dna)
             spec == Spec(intent)
             hasEnv == ".env.example" \in intent.sources /\ ~spec.missingEnv
             hasDocker == intent.docker # {}
  <2>1. "intent" \in fresh
    BY DEF ChainInv, FreshFromFresh, Upstream
  <2>2. Row("intent") = intent /\ Row("blueprint") = Blueprint(spec, intent, repo.dna)
    BY <2>1, FreshRow DEF Reference
  <2>3. Row("blueprint").readiness = Readiness(spec, hasEnv, hasDocker)
    BY <2>2 DEF Blueprint
  <2>4. "commands" \in DOMAIN intent /\ intent.health \in BOOLEAN
    BY DEF Intent
  <2>5. /\ spec.commands = intent.commands /\ spec.manager = intent.manager
        /\ spec.health = intent.health
    BY <2>4, IntentColumns, SpecColumns
  <2>6. intent.manager # None \/ intent.commands["install"] # NoCommand
    BY <2>2, IntentReady
  <2>7. hasEnv \in BOOLEAN /\ hasDocker \in BOOLEAN
    OBVIOUS
  <2> HIDE DEF intent, spec, hasEnv, hasDocker
  <2> QED
    BY <2>3, <2>4, <2>5, <2>6, <2>7, ReadinessCounts
<1> QED
  BY <1>1, ChainAlways, PTL

-----------------------------------------------------------------------------
(* The steps of a plan.                                                    *)

LEMMA OneStep ==
    ASSUME NEW S, NEW c \in S, NEW b \in BOOLEAN
    PROVE  /\ When(b, <<c>>) \in Seq(S)
           /\ \A x : Within(x, When(b, <<c>>)) <=> b /\ x = c
<1>1. <<c>> \in Seq(S) /\ \A x : Within(x, <<c>>) <=> x = c
  BY DEF Within
<1>2. <<>> \in Seq(S) /\ \A x : ~Within(x, <<>>)
  BY DEF Within
<1>3. b = TRUE \/ b = FALSE
  OBVIOUS
<1>4. When(b, <<c>>) = IF b THEN <<c>> ELSE <<>>
  BY DEF When
<1> QED
  BY <1>1, <1>2, <1>3, <1>4

LEMMA OrElseSteps ==
    ASSUME NEW S, NEW s \in Seq(S), NEW p \in S
    PROVE  /\ OrElse(s, p) \in Seq(S)
           /\ \A x : Within(x, OrElse(s, p)) <=> Within(x, s) \/ (s = <<>> /\ x = p)
<1>1. <<p>> \in Seq(S) /\ \A x : Within(x, <<p>>) <=> x = p
  BY DEF Within
<1>2. s = <<>> => \A x : ~Within(x, s)
  BY DEF Within
<1>3. OrElse(s, p) = IF s = <<>> THEN <<p>> ELSE s
  BY DEF OrElse
<1> QED
  BY <1>1, <1>2, <1>3

\* The filter of the plan keeps the steps that are no refusals.
LEMMA PlanStepsAre ==
    ASSUME NEW S, NEW steps \in Seq(S)
    PROVE  /\ PlanSteps(steps) \in Seq(S)
           /\ \A x : Within(x, PlanSteps(steps)) <=> Within(x, steps) /\ x \notin Refusals
<1> DEFINE seqs == [i \in DOMAIN steps |-> When(steps[i] \notin Refusals, <<steps[i]>>)]
           n == Len(steps)
<1>1. DOMAIN steps = 1 .. n /\ n \in Nat
  OBVIOUS
<1>2. ASSUME NEW i \in DOMAIN steps
      PROVE  /\ seqs[i] \in Seq(S)
             /\ \A x : Within(x, seqs[i]) <=> steps[i] \notin Refusals /\ x = steps[i]
  <2>1. steps[i] \in S
    BY <1>1, ElementOfSeq
  <2>2. (steps[i] \notin Refusals) \in BOOLEAN
    OBVIOUS
  <2>3. seqs[i] = When(steps[i] \notin Refusals, <<steps[i]>>)
    OBVIOUS
  <2> HIDE DEF seqs
  <2> DEFINE b == steps[i] \notin Refusals
             c == steps[i]
  <2>4. b \in BOOLEAN /\ c \in S /\ seqs[i] = When(b, <<c>>)
    BY <2>1, <2>2, <2>3
  <2> HIDE DEF b, c
  <2>5. /\ When(b, <<c>>) \in Seq(S)
        /\ \A x : Within(x, When(b, <<c>>)) <=> b /\ x = c
    BY <2>4, OneStep
  <2>6. seqs[i] \in Seq(S) /\ \A x : Within(x, seqs[i]) <=> b /\ x = c
    BY <2>4, <2>5
  <2> QED
    BY <2>6 DEF b, c
<1>3. seqs \in Seq(Seq(S)) /\ DOMAIN seqs = DOMAIN steps
  <2>1. seqs = [i \in 1 .. n |-> seqs[i]]
    BY <1>1
  <2>2. DOMAIN seqs = DOMAIN steps
    OBVIOUS
  <2> DEFINE T == Seq(S)
  <2>3. \A i \in 1 .. n : seqs[i] \in T
    BY <1>1, <1>2
  <2> HIDE DEF seqs, n, T
  <2>4. seqs \in [1 .. n -> T]
    BY <2>1, <2>3
  <2>5. seqs \in Seq(T)
    BY <1>1, <2>4
  <2> QED
    BY <2>2, <2>5 DEF T
<1>4. PlanSteps(steps) = FlattenSeq(seqs)
  BY DEF PlanSteps
<1> HIDE DEF seqs, n
<1>5. PlanSteps(steps) \in Seq(S)
  BY <1>3, <1>4, FlattenTyped
<1>6. ASSUME NEW x PROVE Within(x, PlanSteps(steps)) <=> Within(x, steps) /\ x \notin Refusals
  <2>1. Within(x, PlanSteps(steps)) <=> \E i \in DOMAIN seqs : Within(x, seqs[i])
    BY <1>3, <1>4, FlattenWithin
  <2>2. \A i \in DOMAIN steps : Within(x, seqs[i]) <=> steps[i] \notin Refusals /\ x = steps[i]
    BY <1>2
  <2>3. Within(x, PlanSteps(steps)) <=> \E i \in DOMAIN steps : steps[i] \notin Refusals /\ x = steps[i]
    BY <1>3, <2>1, <2>2, Zenon
  <2> QED
    BY <2>3, Zenon DEF Within
<1> QED
  BY <1>5, <1>6

LEMMA FirstRealIs ==
    ASSUME NEW S, NEW steps \in Seq(S)
    PROVE  FirstReal(steps) = NoCommand
           \/ (Within(FirstReal(steps), steps) /\ FirstReal(steps) \notin Refusals)
<1> DEFINE real == PlanSteps(steps)
<1>1. /\ real \in Seq(S)
      /\ \A x : Within(x, real) <=> Within(x, steps) /\ x \notin Refusals
  BY PlanStepsAre
<1>2. FirstReal(steps) = IF real = <<>> THEN NoCommand ELSE Head(real)
  BY DEF FirstReal
<1> HIDE DEF real
<1>3. real # <<>> => Head(real) = real[1] /\ Within(real[1], real)
  BY <1>1, EmptySeq DEF Within
<1> QED
  BY <1>1, <1>2, <1>3

\* Steps of the planning services' own are told from commands by their authority.
Placeholders == {NoInstall, NoBuild, NoStart, NoHealth, ComposeUp, HealthStep}

LEMMA OwnSteps ==
    /\ \A x \in Placeholders : x.by = "plan"
    /\ Refusals \subseteq Placeholders
    /\ ComposeUp \in Placeholders \ Refusals /\ HealthStep \in Placeholders \ Refusals
    /\ NoCommand.by # "plan"
<1>1. /\ ComposeUp.by = "plan" /\ HealthStep.by = "plan" /\ NoInstall.by = "plan"
      /\ NoBuild.by = "plan" /\ NoStart.by = "plan" /\ NoHealth.by = "plan"
  BY DEF NoInstall, NoBuild, NoStart, NoHealth, ComposeUp, HealthStep, Step
<1>2. /\ ComposeUp.text = "docker compose up -d" /\ HealthStep.text = "curl"
      /\ \A x \in Refusals : x.text # "docker compose up -d" /\ x.text # "curl"
  BY DEF Refusals, NoInstall, NoBuild, NoStart, NoHealth, ComposeUp, HealthStep, Step
<1>3. NoCommand.by # "plan"
  BY DEF NoCommand, None
<1> QED
  BY <1>1, <1>2, <1>3 DEF Placeholders, Refusals

\* Commands that no planning service made up.
Given(commands) == \A s \in Slots : commands[s].by # "plan"

\* What may stand in a phase.
StepsOf(commands) == {commands[s] : s \in Slots} \cup Placeholders

LEMMA GivenAreReal ==
    ASSUME NEW commands, Given(commands), NEW s \in Slots
    PROVE  commands[s] \notin Placeholders /\ commands[s] \notin Refusals
BY OwnSteps DEF Given

\* The phases of the blueprint, as the plan filters them.
LEMMA StartupSteps ==
    ASSUME NEW spec, NEW compose \in BOOLEAN, spec.healthCommand \in BOOLEAN, Given(spec.commands)
    PROVE  LET S == StepsOf(spec.commands)
               startup == Startup(spec, compose)
               c == spec.commands
           IN /\ startup.install \in Seq(S) /\ startup.build \in Seq(S)
              /\ startup.start \in Seq(S) /\ startup.health \in Seq(S)
              /\ \A x : x \notin Refusals =>
                    /\ Within(x, startup.install) =>
                          x = ComposeUp \/ (x = c["install"] /\ x # NoCommand)
                    /\ Within(x, startup.build) <=> x = c["build"] /\ x # NoCommand
                    /\ Within(x, startup.start) <=> x = RunCommand(c) /\ x # NoCommand
                    /\ Within(x, startup.health) <=> spec.healthCommand /\ x = HealthStep
<1> DEFINE c == spec.commands
           S == StepsOf(c)
           run == RunCommand(c)
           up == compose /\ ServicesOf(spec) # {}
           install == When(up, <<ComposeUp>>) \o When(c["install"] # NoCommand, <<c["install"]>>)
           build == When(c["build"] # NoCommand, <<c["build"]>>)
           start == When(run # NoCommand, <<run>>)
           health == When(spec.healthCommand, <<HealthStep>>)
<1>1. /\ Startup(spec, compose).install = OrElse(install, NoInstall)
      /\ Startup(spec, compose).build = OrElse(build, NoBuild)
      /\ Startup(spec, compose).start = OrElse(start, NoStart)
      /\ Startup(spec, compose).health = OrElse(health, NoHealth)
  BY DEF Startup, CommandStep
<1>2. /\ c["install"] \in S /\ c["build"] \in S /\ run \in S /\ ComposeUp \in S /\ HealthStep \in S
      /\ NoInstall \in S /\ NoBuild \in S /\ NoStart \in S /\ NoHealth \in S
  BY DEF StepsOf, Slots, Placeholders, RunCommand
<1>3. /\ NoInstall \in Refusals /\ NoBuild \in Refusals /\ NoStart \in Refusals /\ NoHealth \in Refusals
  BY DEF Refusals
<1>4. up \in BOOLEAN
  OBVIOUS
<1> HIDE DEF c, S, run, up
<1>5. /\ When(up, <<ComposeUp>>) \in Seq(S)
      /\ \A x : Within(x, When(up, <<ComposeUp>>)) <=> up /\ x = ComposeUp
  BY <1>2, <1>4, OneStep
<1>6. ASSUME NEW d \in S
      PROVE  /\ When(d # NoCommand, <<d>>) \in Seq(S)
             /\ \A x : Within(x, When(d # NoCommand, <<d>>)) <=> d # NoCommand /\ x = d
  <2> DEFINE b == d # NoCommand
  <2>1. b \in BOOLEAN
    OBVIOUS
  <2> HIDE DEF b
  <2>2. When(b, <<d>>) \in Seq(S) /\ \A x : Within(x, When(b, <<d>>)) <=> b /\ x = d
    BY <2>1, OneStep
  <2> QED
    BY <2>2 DEF b
<1>7. /\ build \in Seq(S) /\ start \in Seq(S)
      /\ \A x : Within(x, build) <=> c["build"] # NoCommand /\ x = c["build"]
      /\ \A x : Within(x, start) <=> run # NoCommand /\ x = run
  BY <1>2, <1>6
<1>8. /\ health \in Seq(S)
      /\ \A x : Within(x, health) <=> spec.healthCommand /\ x = HealthStep
  BY <1>2, OneStep
<1>9. /\ install \in Seq(S)
      /\ \A x : Within(x, install) <=> \/ up /\ x = ComposeUp
                                       \/ c["install"] # NoCommand /\ x = c["install"]
  <2> DEFINE s == When(up, <<ComposeUp>>)
             t == When(c["install"] # NoCommand, <<c["install"]>>)
  <2>1. /\ s \in Seq(S) /\ t \in Seq(S)
        /\ \A x : Within(x, t) <=> c["install"] # NoCommand /\ x = c["install"]
    BY <1>2, <1>5, <1>6
  <2>2. \A x : Within(x, s) <=> up /\ x = ComposeUp
    BY <1>5
  <2>3. install = s \o t
    OBVIOUS
  <2> HIDE DEF s, t, install
  <2>4. s \o t \in Seq(S) /\ \A x : Within(x, s \o t) <=> Within(x, s) \/ Within(x, t)
    BY <2>1, JoinedSteps
  <2> QED
    BY <2>1, <2>2, <2>3, <2>4
<1> HIDE DEF install, build, start, health
<1>10. ASSUME NEW s \in Seq(S), NEW p \in S, p \in Refusals
       PROVE  /\ OrElse(s, p) \in Seq(S)
              /\ \A x : x \notin Refusals => (Within(x, OrElse(s, p)) <=> Within(x, s))
  BY <1>10, OrElseSteps
<1>11. /\ OrElse(install, NoInstall) \in Seq(S)
       /\ \A x : x \notin Refusals => (Within(x, OrElse(install, NoInstall)) <=> Within(x, install))
  BY <1>2, <1>3, <1>9, <1>10
<1>12. /\ OrElse(build, NoBuild) \in Seq(S)
       /\ \A x : x \notin Refusals => (Within(x, OrElse(build, NoBuild)) <=> Within(x, build))
  BY <1>2, <1>3, <1>7, <1>10
<1>13. /\ OrElse(start, NoStart) \in Seq(S)
       /\ \A x : x \notin Refusals => (Within(x, OrElse(start, NoStart)) <=> Within(x, start))
  BY <1>2, <1>3, <1>7, <1>10
<1>14. /\ OrElse(health, NoHealth) \in Seq(S)
       /\ \A x : x \notin Refusals => (Within(x, OrElse(health, NoHealth)) <=> Within(x, health))
  BY <1>2, <1>3, <1>8, <1>10
<1>15. ASSUME NEW x, x \notin Refusals
       PROVE  /\ Within(x, OrElse(install, NoInstall)) =>
                    x = ComposeUp \/ (x = c["install"] /\ x # NoCommand)
              /\ Within(x, OrElse(build, NoBuild)) <=> x = c["build"] /\ x # NoCommand
              /\ Within(x, OrElse(start, NoStart)) <=> x = run /\ x # NoCommand
              /\ Within(x, OrElse(health, NoHealth)) <=> spec.healthCommand /\ x = HealthStep
  BY <1>7, <1>8, <1>9, <1>11, <1>12, <1>13, <1>14, <1>15
<1> QED
  BY <1>1, <1>11, <1>12, <1>13, <1>14, <1>15 DEF c, S, run

LEMMA PlanParts ==
    ASSUME NEW blueprint, NEW spec
    PROVE  LET plan == Plan(blueprint, spec)
               Steps(k) == PlanSteps(blueprint.startup[k])
           IN /\ plan.startup.dependencies = OrElse(Steps("install"), NoInstall)
              /\ plan.startup.application = OrElse(Steps("build"), NoBuild) \o OrElse(Steps("start"), NoStart)
              /\ plan.startup.health = OrElse(Steps("health"), NoHealth)
              /\ plan.dependencies = OrElse(Steps("install"), NoInstall)
              /\ plan.validation = Validation(blueprint, Steps("install"), Steps("start"),
                                              Steps("health"), HasEnvExample(blueprint, spec))
              /\ plan.readiness = Points(plan.validation)
BY DEF Plan, StartupPhases

\* The checks of a plan and their sum.
LEMMA ValidationCounts ==
    ASSUME NEW blueprint, NEW install, NEW start, NEW health, NEW env \in BOOLEAN
    PROVE  LET checks == Validation(blueprint, install, start, health, env)
           IN /\ checks[2][1] = (install # <<>> /\ start # <<>>)
              /\ checks[3][1] = env
              /\ checks[6][1] = (health # <<>>)
              /\ Points(checks) \in 15..100
<1> DEFINE b1 == blueprint.runtime # None
           b2 == install # <<>> /\ start # <<>>
           b5 == blueprint.assets.existing # {}
           b6 == health # <<>>
           a == [i \in 1 .. 6 |-> IF i = 1 THEN b1 ELSE IF i = 2 THEN b2 ELSE IF i = 3 THEN env
                                  ELSE IF i = 4 THEN TRUE ELSE IF i = 5 THEN b5 ELSE b6]
           w == [i \in 1 .. 6 |-> IF i \in 1 .. 3 THEN 20 ELSE IF i = 6 THEN 10 ELSE 15]
           checks == << <<b1, 20>>, <<b2, 20>>, <<env, 20>>, <<TRUE, 15>>, <<b5, 15>>, <<b6, 10>> >>
<1>1. Validation(blueprint, install, start, health, env) = checks
  BY Zenon DEF Validation
<1>2. b1 \in BOOLEAN /\ b2 \in BOOLEAN /\ b5 \in BOOLEAN /\ b6 \in BOOLEAN
  OBVIOUS
<1> HIDE DEF b1, b2, b5, b6
<1>3. checks[2][1] = b2 /\ checks[3][1] = env /\ checks[6][1] = b6
  OBVIOUS
<1>4. a \in [1 .. 6 -> BOOLEAN] /\ w \in [1 .. 6 -> Nat]
  BY <1>2
<1>5. /\ a[1] = b1 /\ a[2] = b2 /\ a[3] = env /\ a[4] = TRUE /\ a[5] = b5 /\ a[6] = b6
      /\ w[1] = 20 /\ w[2] = 20 /\ w[3] = 20 /\ w[4] = 15 /\ w[5] = 15 /\ w[6] = 10
  OBVIOUS
<1> HIDE DEF a, w
<1>6. Points(checks) = Worth(<<a[1], w[1]>>) + Worth(<<a[2], w[2]>>) + Worth(<<a[3], w[3]>>)
                       + Worth(<<a[4], w[4]>>) + Worth(<<a[5], w[5]>>) + Worth(<<a[6], w[6]>>)
  BY <1>4, <1>5, PointsOfSix
<1>7. \A x \in BOOLEAN : /\ Worth(<<x, 20>>) \in 0 .. 20 /\ Worth(<<x, 15>>) \in 0 .. 15
                         /\ Worth(<<x, 10>>) \in 0 .. 10
  BY DEF Worth
<1>8. Worth(<<TRUE, 15>>) = 15
  BY DEF Worth
<1> HIDE DEF checks
<1>9. Points(checks) \in 15 .. 100
  <2>1. Points(checks) = Worth(<<b1, 20>>) + Worth(<<b2, 20>>) + Worth(<<env, 20>>)
                         + Worth(<<TRUE, 15>>) + Worth(<<b5, 15>>) + Worth(<<b6, 10>>)
    BY <1>5, <1>6, Zenon
  <2>2. /\ Worth(<<b1, 20>>) \in 0 .. 20 /\ Worth(<<b2, 20>>) \in 0 .. 20
        /\ Worth(<<env, 20>>) \in 0 .. 20 /\ Worth(<<b5, 15>>) \in 0 .. 15
        /\ Worth(<<b6, 10>>) \in 0 .. 10
    BY <1>2, <1>7
  <2> QED
    BY <1>8, <2>1, <2>2
<1> QED
  BY <1>1, <1>3, <1>9 DEF b2, b6

LEMMA PlanHonest ==
    ASSUME NEW spec, NEW blueprint, NEW compose \in BOOLEAN, spec.healthCommand \in BOOLEAN,
           Given(spec.commands), blueprint.startup = Startup(spec, compose),
           HasEnvExample(blueprint, spec) \in BOOLEAN
    PROVE  LET plan == Plan(blueprint, spec)
               phases == plan.startup
               launch == CommandPlan(spec, blueprint, plan)
               Real(steps) == \E i \in DOMAIN steps : steps[i].by # "plan" \/ steps[i] \in {ComposeUp, HealthStep}
               Planned(steps, slots) ==
                   \A i \in DOMAIN steps : \/ steps[i] \in Refusals \cup {ComposeUp}
                                            \/ \E s \in slots : steps[i] = spec.commands[s]
           IN /\ Planned(phases.dependencies, {"install"})
              /\ Planned(phases.application, {"build", "dev", "prod"})
              /\ plan.validation[2][1] <=> /\ Real(phases.dependencies)
                                           /\ Runs(spec.commands)
              /\ plan.validation[3][1] = HasEnvExample(blueprint, spec)
              /\ plan.validation[6][1] <=> Real(phases.health)
              /\ plan.readiness \in 15..100
              /\ launch.runtime \in {NoCommand} \cup {spec.commands[s] : s \in {"dev", "prod", "build"}}
              /\ launch.install \in {NoCommand, ComposeUp, spec.commands["install"]}
              /\ launch.runtime = NoCommand => ~Runs(spec.commands)
<1> DEFINE c == spec.commands
           S == StepsOf(c)
           startup == blueprint.startup
           plan == Plan(blueprint, spec)
           install == PlanSteps(startup.install)
           build == PlanSteps(startup.build)
           start == PlanSteps(startup.start)
           health == PlanSteps(startup.health)
           dependencies == OrElse(install, NoInstall)
           application == OrElse(build, NoBuild) \o OrElse(start, NoStart)
           launch == CommandPlan(spec, blueprint, plan)
<1>1. /\ startup.install \in Seq(S) /\ startup.build \in Seq(S)
      /\ startup.start \in Seq(S) /\ startup.health \in Seq(S)
      /\ \A x : x \notin Refusals =>
            /\ Within(x, startup.install) =>
                  x = ComposeUp \/ (x = c["install"] /\ x # NoCommand)
            /\ Within(x, startup.build) <=> x = c["build"] /\ x # NoCommand
            /\ Within(x, startup.start) <=> x = RunCommand(c) /\ x # NoCommand
            /\ Within(x, startup.health) <=> spec.healthCommand /\ x = HealthStep
  BY StartupSteps
<1>2. /\ plan.startup.dependencies = dependencies /\ plan.dependencies = dependencies
      /\ plan.startup.application = application
      /\ plan.startup.health = OrElse(health, NoHealth)
      /\ plan.validation = Validation(blueprint, install, start, health, HasEnvExample(blueprint, spec))
      /\ plan.readiness = Points(plan.validation)
  BY PlanParts
<1>3. /\ plan.validation[2][1] = (install # <<>> /\ start # <<>>)
      /\ plan.validation[3][1] = HasEnvExample(blueprint, spec)
      /\ plan.validation[6][1] = (health # <<>>)
      /\ plan.readiness \in 15..100
  BY <1>2, ValidationCounts
<1>4. \A s \in Slots : c[s].by # "plan" /\ c[s] \notin Refusals /\ c[s] \notin Placeholders
  BY GivenAreReal DEF Given
<1>5. /\ RunCommand(c) \in {c["dev"], c["prod"]}
      /\ Runs(c) <=> RunCommand(c) # NoCommand
      /\ RunCommand(c) \notin Refusals
  BY <1>4 DEF RunCommand, Runs, Slots
<1>6. /\ NoInstall \in S \cap Refusals /\ NoBuild \in S \cap Refusals /\ NoStart \in S \cap Refusals
      /\ NoHealth \in S \cap Refusals
  BY DEF StepsOf, Placeholders, Refusals
<1>7. /\ launch.install = IF c["install"] # NoCommand THEN c["install"]
                          ELSE FirstReal(plan.dependencies \o startup.install)
      /\ launch.runtime = IF Runs(c) THEN RunCommand(c)
                          ELSE FirstReal(startup.start \o plan.startup.application)
  BY DEF CommandPlan
<1> HIDE DEF plan, startup, c, S, launch
\* What the filter leaves.
<1>8. ASSUME NEW steps \in Seq(S)
      PROVE  /\ PlanSteps(steps) \in Seq(S)
             /\ \A x : Within(x, PlanSteps(steps)) <=> Within(x, steps) /\ x \notin Refusals
  BY PlanStepsAre
<1>9. /\ install \in Seq(S)
      /\ \A x : Within(x, install) <=> Within(x, startup.install) /\ x \notin Refusals
  BY <1>1, <1>8
<1>10. /\ build \in Seq(S)
       /\ \A x : Within(x, build) <=> Within(x, startup.build) /\ x \notin Refusals
  BY <1>1, <1>8
<1>11. /\ start \in Seq(S)
       /\ \A x : Within(x, start) <=> Within(x, startup.start) /\ x \notin Refusals
  BY <1>1, <1>8
<1>12. /\ health \in Seq(S)
       /\ \A x : Within(x, health) <=> Within(x, startup.health) /\ x \notin Refusals
  BY <1>1, <1>8
<1> HIDE DEF install, build, start, health
<1>13. /\ dependencies \in Seq(S)
       /\ \A x : Within(x, dependencies) <=> Within(x, install) \/ (install = <<>> /\ x = NoInstall)
  BY <1>6, <1>9, OrElseSteps
<1>14. /\ application \in Seq(S)
       /\ \A x : Within(x, application) <=>
                    \/ Within(x, build) \/ (build = <<>> /\ x = NoBuild)
                    \/ Within(x, start) \/ (start = <<>> /\ x = NoStart)
  <2> DEFINE s == OrElse(build, NoBuild)
             t == OrElse(start, NoStart)
  <2>1. /\ s \in Seq(S)
        /\ \A x : Within(x, s) <=> Within(x, build) \/ (build = <<>> /\ x = NoBuild)
    BY <1>6, <1>10, OrElseSteps
  <2>2. /\ t \in Seq(S)
        /\ \A x : Within(x, t) <=> Within(x, start) \/ (start = <<>> /\ x = NoStart)
    BY <1>6, <1>11, OrElseSteps
  <2>3. application = s \o t
    OBVIOUS
  <2> HIDE DEF s, t, application
  <2>4. s \o t \in Seq(S) /\ \A x : Within(x, s \o t) <=> Within(x, s) \/ Within(x, t)
    BY <2>1, <2>2, JoinedSteps
  <2> QED
    BY <2>1, <2>2, <2>3, <2>4
<1>15. \A x : Within(x, OrElse(health, NoHealth)) <=> Within(x, health) \/ (health = <<>> /\ x = NoHealth)
  BY <1>6, <1>12, OrElseSteps
<1> HIDE DEF dependencies, application
<1> DEFINE Genuine(x) == x.by # "plan" \/ x \in {ComposeUp, HealthStep}
<1>16. /\ \A x \in Refusals : ~Genuine(x)
       /\ \A s \in Slots : Genuine(c[s])
       /\ Genuine(ComposeUp) /\ Genuine(HealthStep)
  BY <1>4, OwnSteps
<1>17. \A x : Within(x, install) => Genuine(x)
  BY <1>1, <1>9, <1>16 DEF Slots
<1> HIDE DEF Genuine
<1>18. (\E x : Within(x, dependencies) /\ Genuine(x)) <=> install # <<>>
  <2>1. install # <<>> <=> \E x : Within(x, install)
    BY <1>9, NothingWithin
  <2> QED
    BY <1>6, <1>13, <1>16, <1>17, <2>1
<1>19. start # <<>> <=> Runs(c)
  <2>1. start # <<>> <=> \E x : Within(x, start)
    BY <1>11, NothingWithin
  <2> QED
    BY <1>1, <1>5, <1>11, <2>1
<1>20. (\E x : Within(x, OrElse(health, NoHealth)) /\ Genuine(x)) <=> health # <<>>
  <2>1. health # <<>> <=> \E x : Within(x, health)
    BY <1>12, NothingWithin
  <2>2. \A x : Within(x, health) => Genuine(x)
    BY <1>1, <1>12, <1>16
  <2> QED
    BY <1>6, <1>15, <1>16, <2>1, <2>2
<1>21. \A x : Within(x, dependencies) => x \in Refusals \cup {ComposeUp} \/ x = c["install"]
  BY <1>1, <1>6, <1>9, <1>13
<1>22. \A x : Within(x, application) => x \in Refusals \/ x \in {c["build"], c["dev"], c["prod"]}
  BY <1>1, <1>5, <1>6, <1>10, <1>11, <1>14
<1>23. launch.install \in {NoCommand, ComposeUp, c["install"]}
  <2> DEFINE steps == dependencies \o startup.install
  <2>1. steps \in Seq(S) /\ \A x : Within(x, steps) <=> Within(x, dependencies) \/ Within(x, startup.install)
    BY <1>1, <1>13, JoinedSteps
  <2> HIDE DEF steps
  <2>2. FirstReal(steps) = NoCommand
        \/ (Within(FirstReal(steps), steps) /\ FirstReal(steps) \notin Refusals)
    BY <2>1, FirstRealIs
  <2>3. FirstReal(steps) \in {NoCommand, ComposeUp, c["install"]}
    BY <1>1, <1>21, <2>1, <2>2
  <2> QED
    BY <1>2, <1>7, <2>3 DEF steps
<1>24. /\ launch.runtime \in {NoCommand, c["dev"], c["prod"], c["build"]}
       /\ launch.runtime = NoCommand => ~Runs(c)
  <2> DEFINE steps == startup.start \o application
  <2>1. steps \in Seq(S) /\ \A x : Within(x, steps) <=> Within(x, startup.start) \/ Within(x, application)
    BY <1>1, <1>14, JoinedSteps
  <2> HIDE DEF steps
  <2>2. FirstReal(steps) = NoCommand
        \/ (Within(FirstReal(steps), steps) /\ FirstReal(steps) \notin Refusals)
    BY <2>1, FirstRealIs
  <2>3. FirstReal(steps) \in {NoCommand, c["dev"], c["prod"], c["build"]}
    BY <1>1, <1>5, <1>22, <2>1, <2>2
  <2> QED
    BY <1>2, <1>5, <1>7, <2>3 DEF steps
<1>25. /\ \A i \in DOMAIN plan.startup.dependencies :
             \/ plan.startup.dependencies[i] \in Refusals \cup {ComposeUp}
             \/ \E s \in {"install"} : plan.startup.dependencies[i] = c[s]
       /\ \A i \in DOMAIN plan.startup.application :
             \/ plan.startup.application[i] \in Refusals \cup {ComposeUp}
             \/ \E s \in {"build", "dev", "prod"} : plan.startup.application[i] = c[s]
  BY <1>2, <1>21, <1>22 DEF Within
<1>26. /\ (\E i \in DOMAIN plan.startup.dependencies :
              \/ plan.startup.dependencies[i].by # "plan"
              \/ plan.startup.dependencies[i] \in {ComposeUp, HealthStep})
            <=> install # <<>>
       /\ (\E i \in DOMAIN plan.startup.health :
              \/ plan.startup.health[i].by # "plan"
              \/ plan.startup.health[i] \in {ComposeUp, HealthStep})
            <=> health # <<>>
  BY <1>2, <1>18, <1>20 DEF Within, Genuine
<1> QED
  BY <1>3, <1>19, <1>23, <1>24, <1>25, <1>26 DEF c, plan, launch

\* The specification keeps what the plan's checks go by.
LEMMA SpecKeeps ==
    ASSUME NEW intent, intent.health \in BOOLEAN
    PROVE  /\ Spec(intent).commands = intent.commands
           /\ Spec(intent).health = intent.health
           /\ Spec(intent).healthCommand \in BOOLEAN
           /\ Spec(intent).missingEnv = (".env.example" \notin intent.sources)
BY DEF Spec

\* Whatever the repository has, the plan holds real steps exactly where its checks count
\* them: the provisioner knows every placeholder of the builder, and takes no command of
\* the repository for one (_plan_steps of workspace_provisioner.py).
THEOREM PlanAlwaysHonest == Chain => []PlanIsHonest
<1>1. ChainInv => PlanIsHonest
  <2> SUFFICES ASSUME ChainInv, "plan" \in fresh PROVE PlanIsHonest
    BY DEF PlanIsHonest
  <2> DEFINE intent == Intent(repo.files, repo.tree, repo.dna)
             spec == Spec(intent)
             blueprint == Blueprint(spec, intent, repo.dna)
             plan == Plan(blueprint, spec)
             compose == "docker-compose" \in intent.docker
             present == ".env.example" \in intent.sources
             hasDocker == intent.docker # {}
  <2>1. {"intent", "spec", "blueprint"} \subseteq fresh
    BY DEF ChainInv, FreshFromFresh, Upstream
  <2>2. /\ Row("intent") = intent /\ Row("spec") = spec /\ Row("blueprint") = blueprint
        /\ Row("plan") = plan
    BY <2>1, FreshRow DEF Reference
  <2>3. intent.health \in BOOLEAN /\ intent.sources = DOMAIN repo.files
    BY DEF Intent
  <2>4. Given(intent.commands)
    <3>1. \A s \in Slots : intent.commands[s].by \in Authorities \cup {None}
      BY CommandsBest
    <3> QED
      BY <3>1 DEF Given, Authorities, None
  <2> HIDE DEF intent
  <2>5. /\ spec.commands = intent.commands /\ spec.health = intent.health
        /\ spec.healthCommand \in BOOLEAN /\ spec.missingEnv = ~present
    BY <2>3, SpecKeeps
  <2>6. compose \in BOOLEAN /\ present \in BOOLEAN /\ hasDocker \in BOOLEAN
    OBVIOUS
  <2> HIDE DEF spec
  <2>7. /\ blueprint.startup = Startup(spec, compose)
        /\ blueprint.files.env = (present /\ ~spec.missingEnv)
        /\ blueprint.readiness = Readiness(spec, present /\ ~spec.missingEnv, hasDocker)
    BY DEF Blueprint, EnvironmentFiles
  <2> HIDE DEF blueprint, compose, hasDocker
  <2>8. HasEnvExample(blueprint, spec) = present
    BY <2>5, <2>6, <2>7 DEF HasEnvExample
  <2>9. blueprint.readiness <= 100
    <3>1. (present /\ ~spec.missingEnv) \in BOOLEAN /\ spec.health \in BOOLEAN
      BY <2>3, <2>5
    <3> DEFINE env == present /\ ~spec.missingEnv
    <3> HIDE DEF env
    <3>2. env \in BOOLEAN
      BY <3>1 DEF env
    <3>3. Readiness(spec, env, hasDocker) \in 0 .. 100
      BY <2>6, <3>1, <3>2, ReadinessCounts
    <3> QED
      BY <2>7, <3>3 DEF env
  <2>10. present <=> ".env.example" \in DOMAIN repo.files
    BY <2>3
  <2> HIDE DEF present
  <2>11. /\ HasEnvExample(blueprint, spec) \in BOOLEAN /\ Given(spec.commands)
    BY <2>4, <2>5, <2>6, <2>8
  <2> QED
    BY <2>2, <2>5, <2>6, <2>7, <2>8, <2>9, <2>10, <2>11, PlanHonest DEF PlanIsHonest
<1> QED
  BY <1>1, ChainAlways, PTL
=============================================================================
