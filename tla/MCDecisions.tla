------------------------------- MODULE MCDecisions -------------------------------
(***************************************************************************)
(* A small instance of the decision modules.  Hugo administers; emma reads *)
(* the data of one vendor, and of all vendors' telephone lists while a     *)
(* grant lasts; robo is a workload.  The possible imports differ in the    *)
(* predicates, the field lists and the capsule's attributes.               *)
(***************************************************************************)
EXTENDS PolicyCompiler, DatasetReads

CONSTANTS emma, hugo, robo

People == {emma, hugo, robo}
Humans == {emma, hugo}

AdminPersona    == [id |-> "admin", actions |-> {"administer", "audit"}, ceiling |-> 0]
ConsumerPersona == [id |-> "consumer", actions |-> {"view", "operate"}, ceiling |-> 2]
LoaderPersona   == [id |-> "loader", actions |-> {"operate"}, ceiling |-> 2]

Personas == {AdminPersona, ConsumerPersona, LoaderPersona}
Home     == [p \in People |-> IF p = hugo THEN AdminPersona
                              ELSE IF p = emma THEN ConsumerPersona ELSE LoaderPersona]

CapsuleOf(id, purpose) ==
  [id |-> id, parent |-> "none", purpose |-> purpose, products |-> {}, managed |-> FALSE]

ControlCapsule == CapsuleOf("control-plane", "governance")
OwnersCapsule  == CapsuleOf("data-governance-owner", "data-governance")
VendorAcme     == CapsuleOf("vendor-acme", "vendor-performance")
SupportDesk    == CapsuleOf("support-desk", "support")

Capsules == {ControlCapsule, OwnersCapsule, VendorAcme, SupportDesk}

ContractOf(id, dataset, purpose, actions, denyFields, approval) ==
  [id |-> id, dataset |-> dataset, purpose |-> purpose,
   personas |-> {ConsumerPersona, LoaderPersona}, actions |-> actions, ceiling |-> 2,
   scope |-> {}, denyFields |-> denyFields, approvalRequired |-> approval]

Phone == <<"contact", "phones", "number">>

SliceContract  == ContractOf("vendor.slice", "bw_vendor", "vendor-performance", {"view", "operate"}, {Phone}, FALSE)
ExportContract == ContractOf("jit.export", "bw_vendor", "vendor-performance", {"view"}, {<<"spend">>}, TRUE)
DeskContract   == ContractOf("wh.support", "warehouse", "support", {"view"}, {<<"email">>}, FALSE)

Contracts == {SliceContract, ExportContract, DeskContract}

Member(p, c, x, n) == [principal |-> p, capsule |-> c, persona |-> x, assignment |-> n]

Members  == {Member(hugo, ControlCapsule, AdminPersona, 1), Member(emma, VendorAcme, ConsumerPersona, 2),
             Member(robo, VendorAcme, LoaderPersona, 3), Member(emma, SupportDesk, ConsumerPersona, 4)}
Bindings == {<<VendorAcme, SliceContract>>, <<VendorAcme, ExportContract>>, <<SupportDesk, DeskContract>>}

Levels  == [d \in {"bw_vendor", "warehouse", "control"} |-> IF d = "control" THEN 1 ELSE 2]
Control == {"control"}

-----------------------------------------------------------------------------
\* Data.

Scalars == {"ACME", "GLOBEX", "EU", "NA", "100", "Ann", "1", "2", "office"}
Names   == {"vendor_id", "region", "spend", "contact", "name", "phones", "number", "kind"}

Leaf(value) == [leaf |-> value]
Object(fields) ==
  [object |-> [n \in Names |-> IF n \in DOMAIN fields THEN fields[n] ELSE Missing]]
PhoneEntry(n) == Object([number |-> Leaf(n), kind |-> Leaf("office")])

VendorRow(vendor, region, level) ==
  [dataset |-> "bw_vendor", level |-> level,
   attrs |-> Object(
     [vendor_id |-> Leaf(vendor), region |-> region, spend |-> Leaf("100"),
      contact |-> Object([name |-> Leaf("Ann"),
                          phones |-> [array |-> <<PhoneEntry("1"), PhoneEntry("2")>>]])])]

VendorRecord(vendor, region, level) == VendorRow(vendor, Leaf(region), level)

Records == {VendorRecord("ACME", "EU", 1), VendorRecord("ACME", "NA", 2),
            VendorRecord("GLOBEX", "EU", 2), VendorRow("GLOBEX", Missing, 1)}
CallerRecords == {VendorRecord("ACME", "NA", 3)}

Fact(id, product, region, tenant, level) ==
  [id |-> id, level |-> level,
   attrs |-> [object |->
     [product |-> Leaf(product), region |-> Leaf(region), tenant |-> Leaf(tenant),
      department |-> Leaf("sales"), source |-> Leaf("sap"), email |-> Leaf("a@b")]]]

Facts == {Fact(1, "tickets", "EU", "ACME", 1), Fact(2, "tickets", "NA", "GLOBEX", 2),
          Fact(3, "events", "EU", "GLOBEX", 1), Fact(4, "tickets", "EU", "GLOBEX", 3)}

Fields ==
  [d \in DOMAIN Levels |->
     CASE d = "bw_vendor" -> {<<"vendor_id">>, <<"region">>, <<"spend">>, <<"contact", "name">>,
                              Phone, <<"contact", "phones", "kind">>}
       [] d = "warehouse" -> {<<"product">>, <<"region">>, <<"tenant">>, <<"email">>}
       [] d = "control"   -> {<<"id">>}]

JitHidden == {<<"contact", "name">>}

ScopeOf(products, regions, tenants) ==
  [d \in Dimension |-> IF d = "product" THEN products ELSE IF d = "region" THEN regions
                       ELSE IF d = "tenant" THEN tenants ELSE {}]

Drafts ==
  {[purpose |-> "support", ceiling |-> 2, denyFields |-> {}, scope |-> ScopeOf({"tickets", "events"}, {}, {})],
   [purpose |-> "support", ceiling |-> 3, denyFields |-> {<<"region">>}, scope |-> ScopeOf({"tickets"}, {"EU"}, {"GLOBEX"})]}

-----------------------------------------------------------------------------
\* The imports.

True == [op |-> "true"]
In(field, values) == [op |-> "in", field |-> <<field>>, values |-> values]
FromAttr(field, attr) == [op |-> "fromCapsuleAttr", field |-> <<field>>, attr |-> attr]
NoValue(field) == [op |-> "eq", field |-> <<field>>, value |-> Missing]
And(clauses) == [op |-> "and", clauses |-> clauses]
Or(clauses)  == [op |-> "or", clauses |-> clauses]

Import(slice, export, desk, exportFields, vendors, regions) ==
  [predicate   |-> [k \in Contracts |-> IF k = SliceContract THEN slice
                                        ELSE IF k = ExportContract THEN export ELSE desk],
   allowFields |-> [k \in Contracts |-> IF k = ExportContract THEN exportFields ELSE Missing],
   attrs       |-> [c \in Capsules |-> [a \in {"vendor_set", "regions"} |->
                                          IF a = "regions" THEN regions ELSE vendors]]]

Tickets == In("product", {"tickets"})
Own     == FromAttr("vendor_id", "vendor_set")

Imports ==
  {Import(Own, Own, And({Tickets, FromAttr("region", "regions")}),
          {<<"vendor_id">>, <<"contact", "name">>, Phone}, {"ACME"}, {"EU"}),
   Import(And({True, Own}), True, And({Tickets, FromAttr("region", "regions"), In("region", {"NA"})}),
          Missing, {"ACME"}, {"EU"}),
   Import(Or({And({Own, In("region", {"EU"})}), [op |-> "eq", field |-> <<"vendor_id">>, value |-> "GLOBEX"]}),
          In("region", {"EU"}), And({Or({Tickets, In("product", {"events"})}), In("tenant", {"GLOBEX"})}),
          {<<"vendor_id">>, <<"contact">>}, {"ACME"}, {}),
   Import(Or({Own, In("vendor_id", {"ACME"}), NoValue("region")}), Or({}),
          Or({And({Tickets, In("region", {Null})}), In("tenant", {"ACME"}), And({})}),
          {<<"other">>}, {}, {}),
   Import(And({Own, In("vendor_id", {AnyValue})}), And({Own, NoValue("region")}),
          And({Tickets, NoValue("region")}), Missing, {"GLOBEX"}, {"EU"})}

RECURSIVE WithClauses(_)
WithClauses(p) ==
  {p} \cup (IF p.op \in {"and", "or"} THEN UNION {WithClauses(c) : c \in p.clauses} ELSE {})

RECURSIVE NestingOf(_)
NestingOf(p) ==
  IF p.op \in {"and", "or"}
  THEN 1 + FoldSet(LAMBDA c, most : IF NestingOf(c) > most THEN NestingOf(c) ELSE most, 0, p.clauses)
  ELSE 0

Nestings ==
  [p \in UNION {WithClauses(x) : x \in
           UNION {{i.predicate[k] : k \in Contracts} : i \in Imports}
             \cup {DraftToPredicate(d) : d \in Drafts}} |-> NestingOf(p)]
=============================================================================
