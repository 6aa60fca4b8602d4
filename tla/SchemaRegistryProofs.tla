------------------------- MODULE SchemaRegistryProofs -------------------------
(***************************************************************************)
(* Proofs that the ids of the schema registry identify schemas, whatever   *)
(* the subjects, definitions, levels and payloads are.                     *)
(***************************************************************************)
EXTENDS SchemaRegistry, TLAPS

Entry == [version : Nat, id : Nat, definition : Definitions, references : References]

\* What the variables hold.
Typed ==
    /\ next_global_id \in Nat \ {0}
    /\ versions \in [Subjects -> Seq(Entry)]
    /\ DOMAIN schema_fingerprints \subseteq Definitions
    /\ \A d \in DOMAIN schema_fingerprints :
           schema_fingerprints[d] \in Nat /\ schema_fingerprints[d] < next_global_id
    /\ \A d \in DOMAIN schema_fingerprints : Parses(d)

\* The fingerprints are one to one, and global_schemas is their inverse.
Inverse ==
    /\ \A d, e \in DOMAIN schema_fingerprints :
           schema_fingerprints[d] = schema_fingerprints[e] => d = e
    /\ \A d \in DOMAIN schema_fingerprints :
           /\ schema_fingerprints[d] \in DOMAIN global_schemas
           /\ global_schemas[schema_fingerprints[d]].definition = d
    /\ \A i \in DOMAIN global_schemas :
           \E d \in DOMAIN schema_fingerprints : schema_fingerprints[d] = i

\* Every version has the id of its definition.
Numbered ==
    \A s \in Subjects : \A i \in 1 .. Len(versions[s]) :
        /\ versions[s][i].definition \in DOMAIN schema_fingerprints
        /\ versions[s][i].id = schema_fingerprints[versions[s][i].definition]

RegistryInv == Typed /\ Inverse /\ Numbered /\ RecordsStayReadable

\* Registering keeps the fingerprints one to one: an id that is handed out is
\* larger than all before it.
LEMMA RegisterKeepsInverse ==
    ASSUME RegistryInv, NEW s \in Subjects, NEW d \in Definitions, NEW r \in References,
           register_schema(s, d, r)
    PROVE  /\ Inverse'
           /\ DOMAIN schema_fingerprints' = DOMAIN schema_fingerprints \cup {d}
           /\ \A e \in DOMAIN schema_fingerprints :
                  schema_fingerprints'[e] = schema_fingerprints[e]
           /\ schema_fingerprints'[d] = IdFor(d)
           /\ IdFor(d) \in Nat
           /\ next_global_id' \in Nat \ {0}
           /\ next_global_id <= next_global_id'
           /\ IdFor(d) < next_global_id'
  <1> DEFINE entry == [version |-> Len(versions[s]) + 1, id |-> IdFor(d), definition |-> d,
                       references |-> r]
  <1>1. /\ schema_fingerprints' = [x \in DOMAIN schema_fingerprints \cup {d} |->
                                     IF x = d THEN IdFor(d) ELSE schema_fingerprints[x]]
        /\ global_schemas' = [x \in DOMAIN global_schemas \cup {IdFor(d)} |->
                                     IF x = IdFor(d) THEN entry ELSE global_schemas[x]]
    BY Zenon DEF register_schema, Put
  <1>2. entry.definition = d
    OBVIOUS
  <1>3. /\ DOMAIN schema_fingerprints' = DOMAIN schema_fingerprints \cup {d}
        /\ schema_fingerprints'[d] = IdFor(d)
        /\ \A e \in DOMAIN schema_fingerprints : schema_fingerprints'[e] = schema_fingerprints[e]
    BY <1>1 DEF IdFor
  <1>4. /\ IdFor(d) \in Nat
        /\ next_global_id' \in Nat \ {0}
        /\ next_global_id <= next_global_id'
        /\ IdFor(d) < next_global_id'
    BY DEF IdFor, register_schema, RegistryInv, Typed
  <1>5. \A e \in DOMAIN schema_fingerprints : schema_fingerprints[e] = IdFor(d) => e = d
    BY DEF IdFor, RegistryInv, Typed, Inverse
  <1>6. Inverse'
    <2>1. \A x, y \in DOMAIN schema_fingerprints' :
              schema_fingerprints'[x] = schema_fingerprints'[y] => x = y
      BY <1>3, <1>5 DEF RegistryInv, Inverse
    <2>2. \A x \in DOMAIN schema_fingerprints' :
              /\ schema_fingerprints'[x] \in DOMAIN global_schemas'
              /\ global_schemas'[schema_fingerprints'[x]].definition = x
      <3> SUFFICES ASSUME NEW x \in DOMAIN schema_fingerprints'
                   PROVE  /\ schema_fingerprints'[x] \in DOMAIN global_schemas'
                          /\ global_schemas'[schema_fingerprints'[x]].definition = x
        OBVIOUS
      <3>1. CASE x = d
        BY <3>1, <1>1, <1>2, <1>3
      <3>2. CASE x # d
        <4>1. x \in DOMAIN schema_fingerprints /\ schema_fingerprints'[x] = schema_fingerprints[x]
          BY <3>2, <1>3
        <4>2. schema_fingerprints[x] # IdFor(d)
          BY <4>1, <3>2, <1>5
        <4> QED
          BY <4>1, <4>2, <1>1 DEF RegistryInv, Inverse
      <3> QED
        BY <3>1, <3>2
    <2>3. \A i \in DOMAIN global_schemas' :
              \E x \in DOMAIN schema_fingerprints' : schema_fingerprints'[x] = i
      BY <1>1, <1>3 DEF RegistryInv, Inverse
    <2> QED
      BY <2>1, <2>2, <2>3 DEF Inverse
  <1> QED
    BY <1>3, <1>4, <1>6

\* Removing an element of a sequence leaves a sequence of the others.
LEMMA AllButKeeps ==
    ASSUME NEW S, NEW q \in Seq(S), NEW i \in 1 .. Len(q)
    PROVE  /\ AllBut(q, i) \in Seq(S)
           /\ \A j \in 1 .. Len(AllBut(q, i)) : \E k \in 1 .. Len(q) : AllBut(q, i)[j] = q[k]
  <1>1. Len(q) - 1 \in Nat
    OBVIOUS
  <1>2. \A j \in 1 .. Len(q) - 1 : AllBut(q, i)[j] \in S
    BY DEF AllBut
  <1>3. AllBut(q, i) \in [1 .. Len(q) - 1 -> S]
    BY <1>2 DEF AllBut
  <1>4. AllBut(q, i) \in Seq(S) /\ Len(AllBut(q, i)) = Len(q) - 1
    BY <1>1, <1>3
  <1>5. ASSUME NEW j \in 1 .. Len(q) - 1
        PROVE  \E k \in 1 .. Len(q) : AllBut(q, i)[j] = q[k]
    <2>1. CASE j < i
      BY <2>1 DEF AllBut
    <2>2. CASE ~(j < i)
      <3>1. j + 1 \in 1 .. Len(q) /\ AllBut(q, i)[j] = q[j + 1]
        BY <2>2 DEF AllBut
      <3> QED
        BY <3>1
    <2> QED
      BY <2>1, <2>2
  <1> QED
    BY <1>4, <1>5

\* Deleting versions, one or all, leaves versions that were there.
LEMMA DeletingKeepsNumbered ==
    ASSUME RegistryInv, NEW s \in Subjects, NEW q \in Seq(Entry),
           \A j \in 1 .. Len(q) : \E k \in 1 .. Len(versions[s]) : q[j] = versions[s][k],
           versions' = [versions EXCEPT ![s] = q],
           UNCHANGED schema_fingerprints
    PROVE  versions' \in [Subjects -> Seq(Entry)] /\ Numbered'
  <1>1. versions \in [Subjects -> Seq(Entry)] /\ Numbered
    BY DEF RegistryInv, Typed
  <1>2. versions' \in [Subjects -> Seq(Entry)]
    BY <1>1
  <1>3. ASSUME NEW t \in Subjects, NEW j \in 1 .. Len(versions'[t])
        PROVE  \E k \in 1 .. Len(versions[t]) : versions'[t][j] = versions[t][k]
    BY <1>1
  <1>4. ASSUME NEW t \in Subjects, NEW j \in 1 .. Len(versions'[t])
        PROVE  /\ versions'[t][j].definition \in DOMAIN schema_fingerprints'
               /\ versions'[t][j].id = schema_fingerprints'[versions'[t][j].definition]
    <2>1. PICK k \in 1 .. Len(versions[t]) : versions'[t][j] = versions[t][k]
      BY <1>3
    <2>2. /\ versions[t][k].definition \in DOMAIN schema_fingerprints
          /\ versions[t][k].id = schema_fingerprints[versions[t][k].definition]
      BY <1>1 DEF Numbered
    <2> QED
      BY <2>1, <2>2
  <1>5. Numbered'
    BY <1>4, Zenon DEF Numbered
  <1> QED
    BY <1>2, <1>5

\* The invariant holds of the empty catalog.
LEMMA InitInv == Init => RegistryInv
  <1> SUFFICES ASSUME Init PROVE RegistryInv
    OBVIOUS
  <1>1. Typed
    BY DEF Init, Typed
  <1>2. Inverse
    BY DEF Init, Inverse
  <1>3. Numbered
    BY DEF Init, Numbered
  <1>4. RecordsStayReadable
    BY DEF Init, RecordsStayReadable
  <1> QED
    BY <1>1, <1>2, <1>3, <1>4 DEF RegistryInv

\* Registering a definition keeps the invariant.
LEMMA RegisterInv ==
    ASSUME RegistryInv, NEW s \in Subjects, NEW d \in Definitions, NEW r \in References,
           register_schema(s, d, r)
    PROVE  RegistryInv'
  <1> DEFINE entry == [version |-> Len(versions[s]) + 1, id |-> IdFor(d), definition |-> d,
                       references |-> r]
  <1>1. /\ Inverse'
        /\ DOMAIN schema_fingerprints' = DOMAIN schema_fingerprints \cup {d}
        /\ \A e \in DOMAIN schema_fingerprints : schema_fingerprints'[e] = schema_fingerprints[e]
        /\ schema_fingerprints'[d] = IdFor(d)
        /\ IdFor(d) \in Nat
        /\ next_global_id' \in Nat \ {0}
        /\ next_global_id <= next_global_id'
        /\ IdFor(d) < next_global_id'
    BY RegisterKeepsInverse, Zenon
  <1>2. Typed /\ Inverse /\ Numbered /\ RecordsStayReadable
    BY DEF RegistryInv
  <1>3. versions' = [versions EXCEPT ![s] = Append(@, entry)] /\ stored' = stored
    BY Zenon DEF register_schema
  <1>4. versions[s] \in Seq(Entry) /\ entry \in Entry
    <2>1. versions[s] \in Seq(Entry)
      BY <1>2 DEF Typed
    <2>2. Len(versions[s]) + 1 \in Nat
      BY <2>1
    <2>3. entry \in Entry
      BY <2>2, <1>1 DEF Entry
    <2> QED
      BY <2>1, <2>3
  <1>5. versions' \in [Subjects -> Seq(Entry)]
    BY <1>2, <1>3, <1>4 DEF Typed
  <1>6. Typed'
    <2>1. Parses(d)
      BY DEF register_schema, Refusal
    <2> QED
      BY <2>1, <1>1, <1>2, <1>5 DEF Typed
  <1>7. Numbered'
    <2> SUFFICES ASSUME NEW t \in Subjects, NEW i \in 1 .. Len(versions'[t])
                 PROVE  /\ versions'[t][i].definition \in DOMAIN schema_fingerprints'
                        /\ versions'[t][i].id = schema_fingerprints'[versions'[t][i].definition]
      BY DEF Numbered
    <2>1. CASE t = s /\ i = Len(versions[s]) + 1
      <3>1. versions'[t][i] = entry
        BY <2>1, <1>2, <1>3, <1>4 DEF Typed
      <3> QED
        BY <3>1, <1>1
    <2>2. CASE ~(t = s /\ i = Len(versions[s]) + 1)
      <3>1. i \in 1 .. Len(versions[t]) /\ versions'[t][i] = versions[t][i]
        BY <2>2, <1>2, <1>3, <1>4 DEF Typed
      <3> QED
        BY <3>1, <1>1, <1>2 DEF Numbered
    <2> QED
      BY <2>1, <2>2
  <1>8. RecordsStayReadable'
    <2> SUFFICES ASSUME NEW i \in DOMAIN stored
                 PROVE  i \in DOMAIN global_schemas' /\ global_schemas'[i].definition = stored[i]
      BY <1>3 DEF RecordsStayReadable
    <2>1. i \in DOMAIN global_schemas /\ global_schemas[i].definition = stored[i]
      BY <1>2 DEF RecordsStayReadable
    <2>2. PICK e \in DOMAIN schema_fingerprints : schema_fingerprints[e] = i
      BY <2>1, <1>2 DEF Inverse
    <2>3. e = stored[i]
      BY <2>1, <2>2, <1>2 DEF Inverse
    <2>4. e \in DOMAIN schema_fingerprints' /\ schema_fingerprints'[e] = i
      BY <2>2, <1>1
    <2> QED
      BY <2>3, <2>4, <1>1 DEF Inverse
  <1> QED
    BY <1>1, <1>6, <1>7, <1>8 DEF RegistryInv
\* Deleting a subject's versions, or one of them, keeps the invariant: the ids
\* and what they stand for stay.
LEMMA DeleteInv ==
    ASSUME RegistryInv, NEW s \in Subjects,
           delete_subject(s) \/ \E v \in 0 .. MaxVersions : delete_version(s, v)
    PROVE  RegistryInv'
  <1>1. UNCHANGED <<next_global_id, global_schemas, schema_fingerprints, stored>>
    BY Zenon DEF delete_subject, delete_version
  <1>2. versions[s] \in Seq(Entry)
    BY DEF RegistryInv, Typed
  <1>3. versions' \in [Subjects -> Seq(Entry)] /\ Numbered'
    <2>1. CASE delete_subject(s)
      <3>1. versions' = [versions EXCEPT ![s] = <<>>]
        BY <2>1, Zenon DEF delete_subject
      <3>2. <<>> \in Seq(Entry) /\ Len(<<>>) = 0
        OBVIOUS
      <3>3. \A j \in 1 .. Len(<<>>) : \E k \in 1 .. Len(versions[s]) : <<>>[j] = versions[s][k]
        BY <3>2
      <3> QED
        BY <3>1, <3>2, <3>3, <1>1, DeletingKeepsNumbered, Zenon
    <2>2. ASSUME NEW v \in 0 .. MaxVersions, delete_version(s, v)
          PROVE  versions' \in [Subjects -> Seq(Entry)] /\ Numbered'
      <3> DEFINE target == IF v = Latest THEN Newest(versions[s]).version ELSE v
      <3>1. PICK i \in Found(s, target) : versions' = [versions EXCEPT ![s] = AllBut(@, i)]
        BY <2>2, Zenon DEF delete_version
      <3> HIDE DEF target
      <3>2. i \in 1 .. Len(versions[s])
        BY <1>2 DEF Found
      <3>3. /\ AllBut(versions[s], i) \in Seq(Entry)
            /\ \A j \in 1 .. Len(AllBut(versions[s], i)) :
                   \E k \in 1 .. Len(versions[s]) : AllBut(versions[s], i)[j] = versions[s][k]
        BY <1>2, <3>2, AllButKeeps, Zenon
      <3>4. versions' = [versions EXCEPT ![s] = AllBut(versions[s], i)]
        BY <3>1
      <3> QED
        BY <3>3, <3>4, <1>1, DeletingKeepsNumbered, Zenon
    <2> QED
      BY <2>1, <2>2
  <1>4. Typed'
    BY <1>1, <1>3 DEF RegistryInv, Typed
  <1>5. Inverse'
    BY <1>1 DEF RegistryInv, Inverse
  <1>6. RecordsStayReadable'
    BY <1>1 DEF RegistryInv, RecordsStayReadable
  <1> QED
    BY <1>3, <1>4, <1>5, <1>6 DEF RegistryInv

\* Producing keeps the invariant: what validation looked up is what the id stands
\* for now.
LEMMA ProduceInv ==
    ASSUME RegistryInv, NEW p \in Payloads, Produce(p)
    PROVE  RegistryInv'
  <1>1. UNCHANGED <<next_global_id, versions, global_schemas, schema_fingerprints>>
    BY Zenon DEF Produce
  <1>2. stored' = [i \in DOMAIN stored \cup IdsOf(p) |->
           IF i \in DOMAIN stored THEN stored[i] ELSE global_schemas[i].definition]
    BY Zenon DEF Produce
  <1>3. IdsOf(p) \subseteq DOMAIN global_schemas
    <2>1. CASE p.empty
      BY <2>1 DEF IdsOf
    <2>2. CASE ~p.empty /\ p.lead # {}
      <3>1. validate_record(p.lead)
        BY <2>2 DEF Produce, validate_record_payloads
      <3> QED
        BY <2>2, <3>1 DEF IdsOf, validate_record
    <2>3. CASE ~p.empty /\ p.lead = {}
      <3>1. \A v \in p.values : v.null \/ validate_record(v.lead)
        BY <2>3 DEF Produce, validate_record_payloads, validate_record
      <3>2. IdsOf(p) = UNION {v.lead : v \in {v \in p.values : ~v.null}}
        BY <2>3 DEF IdsOf
      <3> QED
        BY <3>1, <3>2 DEF validate_record
    <2> QED
      BY <2>1, <2>2, <2>3
  <1>4. RecordsStayReadable'
    BY <1>1, <1>2, <1>3 DEF RegistryInv, RecordsStayReadable
  <1>5. Typed' /\ Inverse' /\ Numbered'
    BY <1>1 DEF RegistryInv, Typed, Inverse, Numbered
  <1> QED
    BY <1>4, <1>5 DEF RegistryInv

\* Every step keeps the invariant.
LEMMA StepInv == RegistryInv /\ [Next]_vars => RegistryInv'
  <1> SUFFICES ASSUME RegistryInv, [Next]_vars PROVE RegistryInv'
    OBVIOUS
  <1>1. ASSUME UNCHANGED <<next_global_id, versions, global_schemas, schema_fingerprints, stored>>
        PROVE  RegistryInv'
    BY <1>1 DEF RegistryInv, Typed, Inverse, Numbered, RecordsStayReadable
  <1>2. ASSUME NEW s \in Subjects, OnSubject(s)
        PROVE  RegistryInv'
    <2>1. ASSUME NEW d \in Definitions, Reregister(s, d)
          PROVE  RegistryInv'
      BY <2>1, <1>1, Zenon DEF Reregister, vars
    <2>2. ASSUME NEW d \in Definitions, NEW r \in References, register_schema(s, d, r)
          PROVE  RegistryInv'
      BY <2>2, RegisterInv
    <2>3. CASE delete_subject(s) \/ \E v \in 0 .. MaxVersions : delete_version(s, v)
      BY <2>3, DeleteInv
    <2>4. ASSUME NEW l \in Levels \cup {NoLevel}, NEW o \in Levels \cup {NoLevel},
                 put_subject_config(s, l, o)
          PROVE  RegistryInv'
      BY <2>4, <1>1, Zenon DEF put_subject_config
    <2> QED
      BY <1>2, <2>1, <2>2, <2>3, <2>4, Zenon DEF OnSubject
  <1>3. ASSUME NEW l \in Levels \cup {NoLevel}, NEW o \in Levels \cup {NoLevel},
               put_global_config(l, o)
        PROVE  RegistryInv'
    BY <1>3, <1>1, Zenon DEF put_global_config
  <1>4. ASSUME NEW p \in Payloads, Produce(p)
        PROVE  RegistryInv'
    BY <1>4, ProduceInv
  <1>5. CASE UNCHANGED vars
    BY <1>5, <1>1, Zenon DEF vars
  <1> QED
    BY <1>2, <1>3, <1>4, <1>5, Zenon DEF Next

\* RegistryInv says that an id identifies a definition.
LEMMA InvImpliesIds == RegistryInv => IdsIdentifySchemas
  <1> SUFFICES ASSUME RegistryInv PROVE IdsIdentifySchemas
    OBVIOUS
  <1>1. ASSUME NEW e \in Entries
        PROVE  e.definition \in DOMAIN schema_fingerprints /\ e.id = schema_fingerprints[e.definition]
    <2>1. PICK s \in Subjects : \E i \in DOMAIN versions[s] : e = versions[s][i]
      BY Zenon DEF Entries
    <2>2. PICK i \in DOMAIN versions[s] : e = versions[s][i]
      BY <2>1
    <2>3. i \in 1 .. Len(versions[s])
      BY DEF RegistryInv, Typed
    <2> QED
      BY <2>2, <2>3 DEF RegistryInv, Numbered
  <1>2. \A e, f \in Entries : e.id = f.id <=> e.definition = f.definition
    BY <1>1 DEF RegistryInv, Inverse
  <1>3. ASSUME NEW e \in Entries
        PROVE  /\ e.id \in DOMAIN global_schemas
               /\ global_schemas[e.id].definition = e.definition
               /\ IdFor(e.definition) = e.id
    BY <1>1 DEF RegistryInv, Inverse, IdFor
  <1>4. ASSUME NEW i \in DOMAIN global_schemas, NEW j \in DOMAIN global_schemas,
               global_schemas[i].definition = global_schemas[j].definition
        PROVE  i = j
    BY <1>4 DEF RegistryInv, Inverse
  <1> QED
    BY <1>2, <1>3, <1>4, Zenon DEF IdsIdentifySchemas

\* For any number of subjects, definitions and levels, an id of the registry
\* stands for one definition and a definition has one id.
THEOREM IdsAlwaysIdentify == Spec => []IdsIdentifySchemas
  <1>1. Init => RegistryInv
    BY InitInv
  <1>2. RegistryInv /\ [Next]_vars => RegistryInv'
    BY StepInv
  <1>3. RegistryInv => IdsIdentifySchemas
    BY InvImpliesIds
  <1> QED
    BY <1>1, <1>2, <1>3, PTL DEF Spec

\* An id found in an accepted record resolves to the same definition ever after,
\* whatever is deleted, registered or configured.
THEOREM RecordsAlwaysReadable == Spec => []RecordsStayReadable
  <1>1. Init => RegistryInv
    BY InitInv
  <1>2. RegistryInv /\ [Next]_vars => RegistryInv'
    BY StepInv
  <1>3. RegistryInv => RecordsStayReadable
    BY DEF RegistryInv
  <1> QED
    BY <1>1, <1>2, <1>3, PTL DEF Spec

\* The newest version is the one the two ways of checking look at.
LEMMA LatestIsNewest ==
    ASSUME NEW s \in Subjects, versions[s] \in Seq(Entry)
    PROVE  /\ versions[s] = <<>> => Found(s, Latest) = {}
           /\ versions[s] # <<>> => Found(s, Latest) = {Len(versions[s])}
  <1>1. \A i \in DOMAIN versions[s] : i \in Found(s, Latest) <=> i = Len(versions[s])
    BY DEF Found, Latest
  <1>2. Found(s, Latest) \subseteq DOMAIN versions[s]
    BY DEF Found
  <1>3. DOMAIN versions[s] = 1 .. Len(versions[s])
    OBVIOUS
  <1>4. versions[s] = <<>> => Len(versions[s]) = 0
    OBVIOUS
  <1>5. versions[s] # <<>> => Len(versions[s]) \in 1 .. Len(versions[s])
    OBVIOUS
  <1> QED
    BY <1>1, <1>2, <1>3, <1>4, <1>5

\* Whatever parsing, types and names are, /compatibility for the latest version
\* answers what registration would.
THEOREM CheckAlwaysPredicts == Spec => []CheckPredictsRegister
  <1>1. Init => RegistryInv
    BY InitInv
  <1>2. RegistryInv /\ [Next]_vars => RegistryInv'
    BY StepInv
  <1>3. RegistryInv => CheckPredictsRegister
    <2> SUFFICES ASSUME RegistryInv, NEW s \in Subjects, NEW d \in Definitions
                 PROVE  LET answer == check_compatibility(s, Latest, d)
                        IN /\ answer = "compatible" => Refusal(s, d) = "none"
                           /\ answer = "incompatible" =>
                                  Refusal(s, d) = "incompatible" \/ Same(s, d) # {}
                           /\ answer = "error" => Refusal(s, d) = "invalid" \/ versions[s] = <<>>
                           /\ check_schema_registered(s, d) # {} => Refusal(s, d) = "none"
      BY Zenon DEF CheckPredictsRegister
    <2>1. versions[s] \in Seq(Entry)
      BY DEF RegistryInv, Typed
    <2>2. check_schema_registered(s, d) # {} => Same(s, d) # {}
      BY DEF check_schema_registered
    <2>3. Same(s, d) # {} => Parses(d)
      <3> SUFFICES ASSUME NEW i \in Same(s, d) PROVE Parses(d)
        OBVIOUS
      <3>1. i \in 1 .. Len(versions[s]) /\ versions[s][i].definition = d
        BY <2>1 DEF Same
      <3>2. d \in DOMAIN schema_fingerprints
        BY <3>1 DEF RegistryInv, Numbered
      <3> QED
        BY <3>2 DEF RegistryInv, Typed
    <2>4. check_schema_registered(s, d) # {} => Refusal(s, d) = "none"
      BY <2>2, <2>3 DEF Refusal
    <2>5. CASE ~Parses(d)
      BY <2>5, <2>4 DEF check_compatibility, Refusal
    <2>6. CASE Parses(d) /\ versions[s] = <<>>
      <3>1. Found(s, Latest) = {}
        BY <2>1, <2>6, LatestIsNewest, Zenon
      <3> QED
        BY <3>1, <2>6, <2>4 DEF check_compatibility, Refusal
    <2>7. CASE Parses(d) /\ versions[s] # <<>>
      <3> DEFINE fits == verify_compatibility(get_config(s), versions[s][Len(versions[s])].definition, d)
      <3>1. Found(s, Latest) = {Len(versions[s])}
        BY <2>1, <2>7, LatestIsNewest
      <3>2. check_compatibility(s, Latest, d) = IF fits THEN "compatible" ELSE "incompatible"
        BY <3>1, <2>7 DEF check_compatibility
      <3>3. Same(s, d) = {} => Refusal(s, d) = IF fits THEN "none" ELSE "incompatible"
        BY <2>7 DEF Refusal, Newest
      <3>4. Same(s, d) # {} => Refusal(s, d) = "none"
        BY <2>7 DEF Refusal
      <3> HIDE DEF fits
      <3> QED
        BY <3>2, <3>3, <3>4, <2>4
    <2> QED
      BY <2>5, <2>6, <2>7, Zenon
  <1> QED
    BY <1>1, <1>2, <1>3, PTL DEF Spec
==============================================================================
