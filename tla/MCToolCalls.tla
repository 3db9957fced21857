---------------------------- MODULE MCToolCalls ----------------------------
(* Instances of ToolCalls.                                                   *)
EXTENDS ToolCalls

Attribute(type, size) == [type |-> type, size |-> size]
Key == "id" :> Attribute("S", 1)
Plain == Key @@ "age" :> Attribute("N", 1)
Private == Key @@ "email" :> Attribute("S", 1)
Login == Key @@ "password" :> Attribute("S", 1)
Mistyped == Key @@ "age" :> Attribute("S", 1)
Large == Key @@ "age" :> Attribute("N", 3)
Huge == Key @@ "age" :> Attribute("N", 5)

MCColumns == "id" :> "S" @@ "age" :> "N"
MCPIIFields == {"email"}
MCSensitiveFields == {"password"}

MCRaw == [batchPut |-> 0, batchDelete |-> 1, batchGet |-> 2, throughput |-> 4,
          depth |-> 1, tableSize |-> 3, scanCost |-> 1]
MCSizes == {0, 5}
MCConfigs == {{}, {"readonly"}, {"protectedTable"}}

Put(i, h) == [tool |-> "put_item", args |-> [item |-> i, hashable |-> h]]
Update(v, parts, missing) ==
  [tool |-> "update_item",
   args |-> [key |-> Key, values |-> v, exp |-> [parts |-> parts, clauses |-> 1],
             hashable |-> TRUE, missing |-> missing]]
UpdateOf(rcu, tags) ==
  [tool |-> "update_table", args |-> [throughput |-> "readCapacityUnits" :> rcu, tags |-> tags]]
Create(hash, sort) ==
  [tool |-> "create_optimized_table",
   args |-> [hash |-> hash, sort |-> sort, mistyped |-> {}, gsis |-> {}]]
ReadOf(tool, missing) == [tool |-> tool, args |-> [missing |-> missing]]

TTL(defined) == [tool |-> "update_table_ttl", args |-> [defined |-> defined]]
BatchDelete(n) == [tool |-> "batch_delete_items", args |-> [n |-> n]]
BatchPut(items) == [tool |-> "batch_put_items", args |-> [items |-> items]]
BatchGet(keys, missing) ==
  [tool |-> "batch_get_items", args |-> [keys |-> keys, missing |-> missing]]
ScanOf(filter, missing) ==
  [tool |-> "scan_table", args |-> [filter |-> filter, missing |-> missing]]

(* One caller makes every kind of call, *)
EveryCall ==
  {Put(i, TRUE) : i \in {Plain, Private, NoItem, Mistyped, Huge}}
    \cup {Put(Plain, FALSE)}
    \cup {Update("age" :> Attribute("N", 1), parts, FALSE) : parts \in {1, 2}}
    \cup {Update("age" :> Attribute("N", 3), 1, FALSE),
          Update("age" :> Attribute("N", 1), 0, TRUE)}
    \cup {ReadOf("delete_item", m) : m \in BOOLEAN}
    \cup {UpdateOf(4, {Secret}), UpdateOf(5, {})}
    \cup {ReadOf("delete_table", FALSE), TTL(TRUE), TTL(FALSE)}
    \cup {ScanOf(TRUE, FALSE), BatchDelete(1), BatchDelete(2)}
    \cup {BatchPut(<<Plain, Large, Plain, Plain>>), BatchGet(<<Key, Key, Key>>, FALSE)}
    \cup {Create("id", TRUE), Create("status", FALSE)}
    \cup {ReadOf("ingest_document", FALSE), ReadOf("get_item", FALSE),
          ReadOf("query_table", TRUE), ReadOf("describe_table", FALSE),
          ReadOf("read_audit_logs", FALSE)}

(* the others what changes the ground under it. *)
Disturbing ==
  {Put(Private, TRUE), ReadOf("delete_item", FALSE), UpdateOf(4, {Secret}),
   ReadOf("delete_table", FALSE), ScanOf(TRUE, FALSE)}

With(i, yes) == [confirmed |-> yes] @@ i

MCInputs ==
  "c1" :> ({With(i, FALSE) : i \in EveryCall}
             \cup {With(i, TRUE) : i \in {x \in EveryCall : x.tool \in Gated}})
    @@ "c2" :> {With(i, i.tool \in Gated) : i \in Disturbing}
MCInitialItems == {Plain, Private}
=============================================================================
