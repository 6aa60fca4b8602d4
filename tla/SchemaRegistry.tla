---------------------------- MODULE SchemaRegistry ----------------------------
(***************************************************************************)
(* The schema registry: the catalog (schema_registry.rs), one action for   *)
(* each request of its HTTP interface that changes it, and the validation  *)
(* of produced records against it.  Every method holds the one lock of the *)
(* catalog, so a request is a step.  Validation takes it once for each     *)
(* value, and as ids are never withdrawn the last time decides.            *)
(*                                                                         *)
(* A definition is the schema text after trimming, together with its type; *)
(* what the registry looks at in it is whether it parses and the name of   *)
(* the record at its top, if any.  The code parses the text before it      *)
(* trims: padding that is whitespace to trim and not to the JSON parser (a *)
(* no-break space) makes a text fail that the model, which has the trimmed *)
(* text only, takes for well formed.  Such texts are left out.             *)
(*                                                                         *)
(* A definition D_Variant, just before D, is D with a plausible mistake.   *)
(***************************************************************************)
EXTENDS Integers, Sequences

CONSTANTS
    Subjects,       \* subject names
    Definitions,    \* schema definitions
    TypeOf(_),      \* the type of a definition: "Avro", "Protobuf" or "Json"
    Parses(_),      \* is its text well formed?
    TopName(_),     \* the name of the record at its top, or NoName
    NoName,
    References,     \* lists of references to other schemas
    Levels,         \* compatibility levels, "None" and "Backward" among them
    NoLevel,        \* a subject without a level of its own
    Payloads,       \* what is produced
    MaxVersions     \* bound: versions of a subject

ASSUME RegistryAssumption == {"None", "Backward"} \subseteq Levels /\ NoLevel \notin Levels

VARIABLES
    next_global_id,
    versions,             \* subject -> its versions, oldest first
    config,               \* subject -> its level, or NoLevel
    global_schemas,       \* id -> the entry registered last
    schema_fingerprints,  \* definition -> id
    global_config,
    stored                \* history: id -> the definition it stood for when a
                          \* record with it was first accepted

vars == <<next_global_id, versions, config, global_schemas, schema_fingerprints,
          global_config, stored>>

Init ==
    /\ next_global_id = 1
    /\ versions = [s \in Subjects |-> <<>>]
    /\ config = [s \in Subjects |-> NoLevel]
    /\ global_schemas = [i \in {} |-> <<>>]
    /\ schema_fingerprints = [d \in {} |-> 0]
    /\ global_config = "Backward"
    /\ stored = [i \in {} |-> <<>>]

Put(f, k, v) == [x \in DOMAIN f \cup {k} |-> IF x = k THEN v ELSE f[x]]
Newest(seq) == seq[Len(seq)]
AllBut(seq, i) == [j \in 1 .. Len(seq) - 1 |-> IF j < i THEN seq[j] ELSE seq[j + 1]]

------------------------------------------------------------------------------
(* Compatibility.                                                           *)

get_config(s) == IF config[s] = NoLevel THEN global_config ELSE config[s]

\* A new version keeps the type and, if both have one, the name at the top.
verify_compatibility(level, existing, candidate) ==
    \/ level = "None"
    \/ /\ TypeOf(existing) = TypeOf(candidate)
       /\ TypeOf(candidate) \in {"Avro", "Json"} =>
              \/ NoName \in {TopName(existing), TopName(candidate)}
              \/ TopName(existing) = TopName(candidate)

\* Versions are numbered from 1; a request may also ask for the latest.
Latest == 0

\* Where the latest version is, or the first with that number: a set of one,
\* or of none.
Found(s, version) ==
    {i \in DOMAIN versions[s] :
        IF version = Latest THEN i = Len(versions[s])
        ELSE /\ versions[s][i].version = version
             /\ \A j \in 1 .. i - 1 : versions[s][j].version # version}

\* check_compatibility against a version: "error", or whether it is compatible.
check_compatibility(s, version, d) ==
    IF ~Parses(d) \/ Found(s, version) = {} THEN "error"
    ELSE IF \A i \in Found(s, version) :
                verify_compatibility(get_config(s), versions[s][i].definition, d)
    THEN "compatible" ELSE "incompatible"

------------------------------------------------------------------------------
(* Registration.                                                            *)

\* The versions of s that are this definition.
Same(s, d) == {i \in DOMAIN versions[s] : versions[s][i].definition = d}

\* Why register_schema fails, if it does.  A definition the subject has is not
\* checked again.
\* Mutant: the global level is used for every subject.
Refusal_GlobalLevel(s, d) ==
    IF ~Parses(d) THEN "invalid"
    ELSE IF Same(s, d) # {} \/ versions[s] = <<>> THEN "none"
    ELSE IF verify_compatibility(global_config, Newest(versions[s]).definition, d) THEN "none"
    ELSE "incompatible"

Refusal(s, d) ==
    IF ~Parses(d) THEN "invalid"
    ELSE IF Same(s, d) # {} \/ versions[s] = <<>> THEN "none"
    ELSE IF verify_compatibility(get_config(s), Newest(versions[s]).definition, d) THEN "none"
    ELSE "incompatible"

\* The id a definition has or gets.
IdFor(d) ==
    IF d \in DOMAIN schema_fingerprints THEN schema_fingerprints[d] ELSE next_global_id

\* register_schema, when the subject has the definition already: it returns
\* the id of that version.
Reregister(s, d) ==
    /\ Refusal(s, d) = "none" /\ Same(s, d) # {}
    /\ UNCHANGED vars

\* Mutant: every version has an id of its own.
register_schema_NewId(s, d, refs) ==
    /\ Refusal(s, d) = "none" /\ Same(s, d) = {}
    /\ Len(versions[s]) < MaxVersions                                   \* bound
    /\ LET entry == [version |-> Len(versions[s]) + 1, id |-> next_global_id, definition |-> d,
                     references |-> refs]
       IN /\ versions' = [versions EXCEPT ![s] = Append(@, entry)]
          /\ global_schemas' = Put(global_schemas, next_global_id, entry)
    /\ schema_fingerprints' = Put(schema_fingerprints, d, next_global_id)
    /\ next_global_id' = next_global_id + 1
    /\ UNCHANGED <<config, global_config, stored>>

\* The numbering of versions counts those that are left.
register_schema(s, d, refs) ==
    /\ Refusal(s, d) = "none" /\ Same(s, d) = {}
    /\ Len(versions[s]) < MaxVersions                                   \* bound
    /\ LET entry == [version |-> Len(versions[s]) + 1, id |-> IdFor(d), definition |-> d,
                     references |-> refs]
       IN /\ versions' = [versions EXCEPT ![s] = Append(@, entry)]
          /\ global_schemas' = Put(global_schemas, IdFor(d), entry)
    /\ schema_fingerprints' = Put(schema_fingerprints, d, IdFor(d))
    /\ next_global_id' = IF d \in DOMAIN schema_fingerprints THEN next_global_id
                         ELSE next_global_id + 1
    /\ UNCHANGED <<config, global_config, stored>>

\* The first version of s that is this definition: a set of one, or of none.
check_schema_registered(s, d) ==
    {versions[s][i] : i \in {i \in Same(s, d) : \A j \in Same(s, d) : i <= j}}

\* Mutant: ids no version has any more go with the subject.
delete_subject_AndIds(s) ==
    /\ versions[s] # <<>>
    /\ versions' = [versions EXCEPT ![s] = <<>>]
    /\ LET used == {d \in DOMAIN schema_fingerprints : \E t \in Subjects \ {s} : Same(t, d) # {}}
       IN /\ schema_fingerprints' = [d \in used |-> schema_fingerprints[d]]
          /\ global_schemas' = [i \in {schema_fingerprints[d] : d \in used} |-> global_schemas[i]]
    /\ UNCHANGED <<next_global_id, config, global_config, stored>>

delete_subject(s) ==
    /\ versions[s] # <<>>
    /\ versions' = [versions EXCEPT ![s] = <<>>]
    /\ UNCHANGED <<next_global_id, config, global_schemas, schema_fingerprints, global_config,
                   stored>>

\* The latest version is deleted by its number: numbers may repeat, and then the
\* first version that has it goes.
delete_version(s, version) ==
    /\ versions[s] # <<>>
    /\ LET target == IF version = Latest THEN Newest(versions[s]).version ELSE version
       IN \E i \in Found(s, target) : versions' = [versions EXCEPT ![s] = AllBut(@, i)]
    /\ UNCHANGED <<next_global_id, config, global_schemas, schema_fingerprints, global_config,
                   stored>>

------------------------------------------------------------------------------
(* The level of a subject, or of all that have none.  A request may give it *)
(* under either of two names, or not at all.                                *)

Requested(level, other) ==
    IF level # NoLevel THEN level ELSE IF other # NoLevel THEN other ELSE "Backward"

put_subject_config(s, level, other) ==
    /\ config' = [config EXCEPT ![s] = Requested(level, other)]
    /\ UNCHANGED <<next_global_id, versions, global_schemas, schema_fingerprints, global_config,
                   stored>>

put_global_config(level, other) ==
    /\ global_config' = Requested(level, other)
    /\ UNCHANGED <<next_global_id, versions, config, global_schemas, schema_fingerprints, stored>>

------------------------------------------------------------------------------
(* Produced records.  Bytes that start with a zero carry the schema id in   *)
(* the next four: lead is that id, as a set of one, and {} for other bytes. *)
(* A payload is empty or not, has a lead, is a record batch or not, and if  *)
(* it is has values (no bytes, or a lead), up to the first that does not    *)
(* decode.                                                                  *)

\* validate_record with require_magic_byte.
validate_record(lead) == lead # {} /\ lead \subseteq DOMAIN global_schemas

validate_record_payloads(p) ==
    \/ p.empty
    \/ validate_record(p.lead)
    \/ p.lead = {} /\ p.batch /\ \A v \in p.values : v.null \/ validate_record(v.lead)

\* The ids validation looked at.
IdsOf(p) ==
    IF p.empty THEN {}
    ELSE IF p.lead # {} THEN p.lead
    ELSE UNION {v.lead : v \in {v \in p.values : ~v.null}}

\* Accepted records are appended, and stay where consumers read them.
Produce(p) ==
    /\ validate_record_payloads(p)
    /\ stored' = [i \in DOMAIN stored \cup IdsOf(p) |->
           IF i \in DOMAIN stored THEN stored[i] ELSE global_schemas[i].definition]
    /\ UNCHANGED <<next_global_id, versions, config, global_schemas, schema_fingerprints,
                   global_config>>

------------------------------------------------------------------------------
OnSubject(s) ==
    \/ \E d \in Definitions : Reregister(s, d) \/ \E r \in References : register_schema(s, d, r)
    \/ delete_subject(s)
    \/ \E v \in 0 .. MaxVersions : delete_version(s, v)
    \/ \E l, o \in Levels \cup {NoLevel} : put_subject_config(s, l, o)

Next ==
    \/ \E s \in Subjects : OnSubject(s)
    \/ \E l, o \in Levels \cup {NoLevel} : put_global_config(l, o)
    \/ \E p \in Payloads : Produce(p)

Spec == Init /\ [][Next]_vars

------------------------------------------------------------------------------
(* Properties.                                                              *)

Entries == UNION {{versions[s][i] : i \in DOMAIN versions[s]} : s \in Subjects}

\* Ids count up from 1, versions have numbers, and levels are levels.
TypeOK ==
    /\ next_global_id \in Nat \ {0}
    /\ DOMAIN schema_fingerprints \subseteq Definitions
    /\ \A e \in Entries : e.version \in 1 .. MaxVersions /\ e.definition \in Definitions
    /\ global_config \in Levels
    /\ \A s \in Subjects : config[s] \in Levels \cup {NoLevel}

\* An id stands for one definition and a definition has one id, in whichever
\* subjects, versions and orders it is registered, deleted and registered
\* again; every version resolves through its id to its own definition.
IdsIdentifySchemas ==
    /\ \A e, f \in Entries : e.id = f.id <=> e.definition = f.definition
    /\ \A e \in Entries : /\ e.id \in DOMAIN global_schemas
                          /\ global_schemas[e.id].definition = e.definition
                          /\ IdFor(e.definition) = e.id
    /\ \A i, j \in DOMAIN global_schemas :
           global_schemas[i].definition = global_schemas[j].definition => i = j

\* A record that was accepted can be decoded by all later readers: the id in
\* it keeps resolving to the definition it was written with, although the
\* version and the subject it came from may be deleted or overwritten.
RecordsStayReadable ==
    \A i \in DOMAIN stored :
        i \in DOMAIN global_schemas /\ global_schemas[i].definition = stored[i]

\* The answer of /compatibility for the latest version tells what registering
\* would do: a compatible definition is accepted, and an incompatible one is
\* refused unless the subject has it already.  One that the lookup finds can be
\* registered again whatever the level has become.
CheckPredictsRegister ==
    \A s \in Subjects : \A d \in Definitions :
        LET answer == check_compatibility(s, Latest, d)
        IN /\ answer = "compatible" => Refusal(s, d) = "none"
           /\ answer = "incompatible" => Refusal(s, d) = "incompatible" \/ Same(s, d) # {}
           /\ answer = "error" => Refusal(s, d) = "invalid" \/ versions[s] = <<>>
           /\ check_schema_registered(s, d) # {} => Refusal(s, d) = "none"
==============================================================================
