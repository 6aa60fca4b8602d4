------------------------------ MODULE Authorizer ------------------------------
(***************************************************************************)
(* The ACL engine (AclAuthorizer): a list of bindings, each of which       *)
(* allows or denies an operation on resources to a principal.              *)
(*                                                                         *)
(* Resource names are sequences of name parts, so that one name may be a   *)
(* prefix of another.  A principal is <<"alice">> when its text holds no   *)
(* colon and <<"User", "alice">> when it does.                             *)
(***************************************************************************)
EXTENDS Naturals, Sequences

CONSTANTS
    AclEnabled,       \* --enable-acls
    SuperUsers,       \* the principals of --super-users
    AllowEveryone     \* --allow-everyone-if-no-acl-found

Star == <<"*">>

\* The elements of a list.
ToSet(s) == {s[i] : i \in DOMAIN s}

StartsWith(name, prefix) == Len(prefix) <= Len(name) /\ SubSeq(name, 1, Len(prefix)) = prefix

\* A principal without a type is a user.
Normal(p) == IF Len(p) = 1 THEN <<"User">> \o p ELSE p

\* What a request asks for: an operation on a resource.
Need(type, name, op) == [type |-> type, name |-> name, op |-> op]

OnResource(b, need) ==
    /\ b.resource_type = need.type
    /\ IF b.pattern_type = "Prefixed" THEN StartsWith(need.name, b.resource_name)
                                      ELSE b.resource_name \in {need.name, Star}

Applies(b, principal, host, need) ==
    /\ OnResource(b, need)
    /\ b.principal \in {Normal(principal), <<"User", "*">>, Star}
    /\ b.host \in {host, "*"}
    /\ b.operation \in {need.op, "All"}

IsSuperUser(principal) ==
    {Normal(principal), principal} \cap {Normal(u) : u \in SuperUsers} # {}

\* The loop over the bindings: a Deny that applies ends it, an Allow is
\* remembered, any other permission type has no effect.
\* Mutant: the first rule that applies decides.
Scan_FirstWins(bs, principal, host, need) ==
    LET scan[i \in 1 .. Len(bs) + 1] == [allows \in BOOLEAN |->
            IF i > Len(bs) THEN allows
            ELSE IF ~Applies(bs[i], principal, host, need) THEN scan[i + 1][allows]
            ELSE bs[i].permission_type = "Allow"]
    IN scan[1][FALSE]

Scan(bs, principal, host, need) ==
    LET scan[i \in 1 .. Len(bs) + 1] == [allows \in BOOLEAN |->
            IF i > Len(bs) THEN allows
            ELSE IF ~Applies(bs[i], principal, host, need) THEN scan[i + 1][allows]
            ELSE IF bs[i].permission_type = "Deny" THEN FALSE
            ELSE scan[i + 1][allows \/ bs[i].permission_type = "Allow"]]
    IN scan[1][FALSE]

authorize(bs, principal, host, need) ==
    \/ ~AclEnabled
    \/ IsSuperUser(principal)
    \/ IF \E i \in DOMAIN bs : OnResource(bs[i], need)
       THEN Scan(bs, principal, host, need)
       ELSE AllowEveryone

------------------------------------------------------------------------------
(* Changing and listing the bindings. *)

Binding(c) == [c EXCEPT !.principal = Normal(c.principal),
                        !.host = IF c.host = "" THEN "*" ELSE c.host]

\* One creation: refused when a field is unknown, dropped when it is there.
Created(bs, c) ==
    IF \/ "Unknown" \in {c.resource_type, c.pattern_type, c.operation, c.permission_type}
       \/ Binding(c) \in ToSet(bs)
    THEN bs ELSE Append(bs, Binding(c))

create_acls(bs, creations) ==
    LET made[i \in 0 .. Len(creations)] ==
            IF i = 0 THEN bs ELSE Created(made[i-1], creations[i])
    IN made[Len(creations)]

\* An absent filter field is <<>> for a name or a principal, "" for a host.
NameFilterMatches(f, b) ==
    \/ f.resource_name = <<>>
    \/ b.resource_name = f.resource_name
    \/ /\ f.pattern_type \in {"Any", "Match", "Prefixed"}
       /\ StartsWith(f.resource_name, b.resource_name)
    \/ f.pattern_type \in {"Any", "Match"} /\ b.resource_name = Star

PrincipalFilterMatches(f, b) ==
    \/ f.principal \in {<<>>, Star}
    \/ b.principal \in {f.principal, Normal(f.principal)}

DescribeMatches(f, b) ==
    /\ f.resource_type \in {"Any", b.resource_type}
    /\ NameFilterMatches(f, b)
    /\ PrincipalFilterMatches(f, b)
    /\ f.host \in {"", "*", b.host}
    /\ f.operation \in {"Any", b.operation}
    /\ f.permission_type \in {"Any", b.permission_type}

\* The same conditions, written out a second time in the code.
\* Mutant: the name filter compares for equality only.
DeleteMatches_ExactName(f, b) ==
    /\ f.resource_type \in {"Any", b.resource_type}
    /\ f.resource_name \in {<<>>, b.resource_name}
    /\ PrincipalFilterMatches(f, b)
    /\ f.host \in {"", "*", b.host}
    /\ f.operation \in {"Any", b.operation}
    /\ f.permission_type \in {"Any", b.permission_type}

DeleteMatches(f, b) ==
    /\ f.resource_type \in {"Any", b.resource_type}
    /\ NameFilterMatches(f, b)
    /\ PrincipalFilterMatches(f, b)
    /\ f.host \in {"", "*", b.host}
    /\ f.operation \in {"Any", b.operation}
    /\ f.permission_type \in {"Any", b.permission_type}

\* filter and retain: the bindings of bs that are in kept, in their order.
Only(bs, kept) ==
    LET taken[i \in 0 .. Len(bs)] ==
            IF i = 0 THEN <<>>
            ELSE IF bs[i] \in kept THEN Append(taken[i-1], bs[i]) ELSE taken[i-1]
    IN taken[Len(bs)]

describe_acls(bs, f) == Only(bs, {b \in ToSet(bs) : DescribeMatches(f, b)})

\* The filters are applied one after the other; removed lists what each took.
delete_acls(bs, filters) ==
    LET Gone(rest, f) == {b \in ToSet(rest) : DeleteMatches(f, b)}
        left[i \in 0 .. Len(filters)] ==
            IF i = 0 THEN bs
            ELSE Only(left[i-1], ToSet(left[i-1]) \ Gone(left[i-1], filters[i]))
    IN [bindings |-> left[Len(filters)],
        removed |-> [i \in 1 .. Len(filters) |-> Only(left[i-1], Gone(left[i-1], filters[i]))]]

------------------------------------------------------------------------------
(* The meaning of a list of bindings, without the order they are in: what   *)
(* authorize is compared with.                                              *)

Permitted(rules, principal, host, need) ==
    LET applying == {b \in rules : Applies(b, principal, host, need)}
        kinds == {b.permission_type : b \in applying}
    IN \/ ~AclEnabled \/ IsSuperUser(principal)
       \/ AllowEveryone /\ ~\E b \in rules : OnResource(b, need)
       \/ "Allow" \in kinds /\ "Deny" \notin kinds
==============================================================================
