----------------------------- MODULE Modes_proofs -----------------------------
(***************************************************************************)
(* For every target, every command line and any number of runs and         *)
(* interruptions: what a reader of the DTB finds after a run that ended    *)
(* early, in which order the DTB and the EPT are written, and that a run   *)
(* that returned 0 has delivered what it was asked for and has left a DTB  *)
(* and an EPT that say the same.                                           *)
(***************************************************************************)
EXTENDS Modes, Recursion, TLAPS

(***************************************************************************)
(* Types                                                                   *)
(***************************************************************************)
IsList(s) == Len(s) \in Nat /\ DOMAIN s = 1 .. Len(s) /\ s = [k \in DOMAIN s |-> s[k]]

IsNode(d) ==
  d = [has |-> d.has, parts |-> d.parts] /\ d.has \in BOOLEAN /\ (d.has \/ d.parts = <<>>)

IsCopy(c) ==
  /\ c = [sum |-> c.sum, dtbs |-> c.dtbs] /\ c.sum \in BOOLEAN
  /\ IsList(c.dtbs) /\ \A k \in DOMAIN c.dtbs : IsNode(c.dtbs[k])

IsTable(t) ==
  t = [magic |-> t.magic, version |-> t.version, sum |-> t.sum, parts |-> t.parts]

Hands == 1 .. (IF content = "dtb" THEN 1 ELSE 2)

TypedTarget ==
  /\ content \in {"disk", "reserved", "dtb"}
  /\ copies = [k \in Hands |-> copies[k]] /\ stable = [k \in Hands |-> stable[k]]
  /\ \A k \in Hands : IsCopy(copies[k]) /\ IsCopy(stable[k])
  /\ IsTable(ept) /\ Len(ept.parts) \in 0 .. MaxParts

TypedRun ==
  /\ IsTable(table)
  /\ pc \in {"idle", "decide", "run", "first", "second", "sync"}
  /\ cause \in {"none", "ok", "refused", "io", "killed", "power"}
  /\ cause = "ok" => ret = 0
  /\ pc # "idle" => cause = "none"
  /\ pc \in {"idle", "decide"} => script = <<>>

Typed == TypedTarget /\ TypedRun

(***************************************************************************)
(* What a run has read                                                     *)
(***************************************************************************)
Unfilled(b, dtbs) ==
  /\ Len(dtbs) = 1 /\ ~dtbs[1].has
  /\ \E g \in GarbageDParts : b = <<[has |-> FALSE, parts |-> g]>>

HasRead ==
  /\ pc # "idle" => /\ bhelper = before \/ Unfilled(bhelper, before)
                    /\ IsList(before)
  /\ pc = "decide" => /\ view = before
                      /\ content # "dtb" => table = ept
                      /\ request \in Requests

(***************************************************************************)
(* What is left of the script                                              *)
(***************************************************************************)
IsItem(x) ==
  \/ x = [do |-> "refuse", code |-> x.code]
  \/ x = [do |-> "dtb", node |-> x.node, code |-> x.code] /\ IsNode(x.node)
  \/ x = [do |-> "ept", new |-> x.new, code |-> x.code] /\ IsTable(x.new)

(* At most two writes, and never two of the same.                          *)
IsScript(s) ==
  \/ s = <<>>
  \/ \E x : s = <<x>> /\ IsItem(x)
  \/ \E x, y : s = <<x, y>> /\ IsItem(x) /\ IsItem(y) /\ x.do # y.do

Left(s, what) == \E k \in DOMAIN s : s[k].do = what

AtMost(s, kinds) == s = <<>> \/ \E x : s = <<x>> /\ IsItem(x) /\ x.do \in kinds

(* Each of the three items a mode can ask for makes a script of one item,  *)
(* of its own kind.                                                        *)
LEMMA Steps ==
  /\ \A code : AtMost(Refuse(code), {"refuse"})
  /\ \A node, code : IsNode(node) => AtMost(PutDtb(node, code), {"dtb"})
  /\ \A new, code : IsTable(new) => AtMost(PutEpt(new, code), {"ept"})
<1>1. ASSUME NEW code PROVE AtMost(Refuse(code), {"refuse"})
  <2> DEFINE x == [do |-> "refuse", code |-> code]
  <2>1. Refuse(code) = <<x>> /\ IsItem(x) /\ x.do = "refuse" BY DEF Refuse, IsItem
  <2> HIDE DEF x
  <2> QED BY <2>1 DEF AtMost
<1>2. ASSUME NEW node, NEW code, IsNode(node) PROVE AtMost(PutDtb(node, code), {"dtb"})
  <2> DEFINE x == [do |-> "dtb", node |-> node, code |-> code]
  <2>1. PutDtb(node, code) = <<x>> /\ IsItem(x) /\ x.do = "dtb" BY <1>2 DEF PutDtb, IsItem
  <2> HIDE DEF x
  <2> QED BY <2>1 DEF AtMost
<1>3. ASSUME NEW new, NEW code, IsTable(new) PROVE AtMost(PutEpt(new, code), {"ept"})
  <2> DEFINE x == [do |-> "ept", new |-> new, code |-> code]
  <2>1. PutEpt(new, code) = <<x>> /\ IsItem(x) /\ x.do = "ept" BY <1>3 DEF PutEpt, IsItem
  <2> HIDE DEF x
  <2> QED BY <2>1 DEF AtMost
<1> QED BY <1>1, <1>2, <1>3

(* Of two scripts of at most one item each, of different kinds, the one    *)
(* after the other is a script: what is first is of the first, what is     *)
(* last of the second, and what is left is left in one of them.            *)
LEMMA OneAfterAnother ==
  ASSUME NEW s, NEW t, NEW K, NEW L, AtMost(s, K), AtMost(t, L), K \intersect L = {}
  PROVE  /\ IsScript(s \o t)
         /\ \A k \in DOMAIN (s \o t) :
              \/ k = 1 /\ s # <<>> /\ (s \o t)[k] = s[1] /\ s[1].do \in K
              \/ k = Len(s \o t) /\ t # <<>> /\ (s \o t)[k] = t[1] /\ t[1].do \in L
         /\ \A what : Left(s \o t, what) <=> (s # <<>> /\ s[1].do = what) \/ (t # <<>> /\ t[1].do = what)
<1>1. CASE s = <<>> /\ t = <<>>
  <2>1. s \o t = <<>> BY <1>1
  <2> QED BY <1>1, <2>1 DEF IsScript, Left
<1>2. ASSUME NEW x, s = <<x>>, IsItem(x), x.do \in K, t = <<>>
      PROVE  s \o t = <<x>>
  BY <1>2
<1>3. ASSUME NEW y, t = <<y>>, IsItem(y), y.do \in L, s = <<>>
      PROVE  s \o t = <<y>>
  BY <1>3
<1>4. ASSUME NEW x, NEW y, s = <<x>>, t = <<y>>
      PROVE  s \o t = <<x, y>>
  <2>1. s \in Seq({x, y}) /\ t \in Seq({x, y}) BY <1>4
  <2>2. Len(s \o t) = 2 /\ (s \o t)[1] = x /\ (s \o t)[2] = y /\ s \o t \in Seq({x, y})
    BY <1>4, <2>1
  <2> DEFINE u == s \o t
  <2> HIDE DEF u
  <2>3. u = <<x, y>>
    <3>1. u \in Seq({x, y}) /\ Len(u) = 2 /\ u[1] = x /\ u[2] = y BY <2>2 DEF u
    <3> QED BY <3>1
  <2> QED BY <2>3 DEF u
<1> QED BY <1>1, <1>2, <1>3, <1>4 DEF IsScript, Left, AtMost

(* The new tables of the modes are tables and hold the partitions they are *)
(* made from; two tables that compare equal hold the same partitions.      *)
LEMMA Tables ==
  /\ \A parts : IsTable(Table(parts)) /\ Table(parts).parts = parts
  /\ \A parts : IsTable(table) => IsTable(Reheaded(parts)) /\ Reheaded(parts).parts = parts
  /\ \A new : SameTable(table, new) => table.parts = new.parts
<1>1. ASSUME NEW parts, IsTable(table)
      PROVE  IsTable(Reheaded(parts)) /\ Reheaded(parts).parts = parts
  <2> DEFINE m == table.magic
             v == table.version
             old == table.sum
             p == table.parts
             sum == Checksum(parts)
  <2>1. table = [magic |-> m, version |-> v, sum |-> old, parts |-> p] BY <1>1 DEF IsTable
  <2> HIDE DEF m, v, old, p, sum
  <2>2. Reheaded(parts) = [magic |-> m, version |-> v, sum |-> sum, parts |-> parts]
    <3>1. Reheaded(parts) = [table EXCEPT !.parts = parts, !.sum = sum] BY DEF Reheaded, sum
    <3>2. [table EXCEPT !.parts = parts]
            = [magic |-> m, version |-> v, sum |-> old, parts |-> parts]
      BY <2>1
    <3>3. [[magic |-> m, version |-> v, sum |-> old, parts |-> parts] EXCEPT !.sum = sum]
            = [magic |-> m, version |-> v, sum |-> sum, parts |-> parts]
      OBVIOUS
    <3>4. [table EXCEPT !.parts = parts, !.sum = sum]
            = [[table EXCEPT !.parts = parts] EXCEPT !.sum = sum]
      OBVIOUS
    <3> QED BY <3>1, <3>2, <3>3, <3>4
  <2> QED BY <2>2 DEF IsTable
<1> QED BY <1>1 DEF IsTable, Table, SameTable

(* The EPT is written only when it differs from the one in memory: if it   *)
(* is not, that one holds the partitions already.                          *)
LEMMA EptWhenNew ==
  ASSUME NEW new, NEW code, IsTable(new)
  PROVE  LET s == PutEptIfNew(new, code)
         IN /\ AtMost(s, {"ept"})
            /\ s # <<>> => s[1].do = "ept" /\ s[1].new = new
            /\ s = <<>> => table.parts = new.parts
<1>1. CASE SameTable(table, new) BY <1>1, Tables DEF PutEptIfNew, AtMost
<1>2. CASE ~SameTable(table, new)
  <2>1. PutEptIfNew(new, code) = PutEpt(new, code) BY <1>2 DEF PutEptIfNew
  <2>2. PutEpt(new, code) # <<>> /\ PutEpt(new, code)[1].new = new
        /\ PutEpt(new, code)[1].do = "ept"
    BY DEF PutEpt
  <2> QED BY <2>1, <2>2, Steps
<1> QED BY <1>1, <1>2

(* The DTB is written only when the first one in memory differs.           *)
LEMMA DtbWhenNew ==
  ASSUME NEW dparts, NEW code
  PROVE  LET s == PutDtbIfNew(dparts, code)
         IN /\ AtMost(s, {"dtb"})
            /\ s # <<>> => s[1].do = "dtb" /\ s[1].node = Node(dparts)
            /\ s = <<>> => SameDParts(dparts)
<1>1. CASE SameDParts(dparts) BY <1>1 DEF PutDtbIfNew, AtMost
<1>2. CASE ~SameDParts(dparts)
  <2>1. PutDtbIfNew(dparts, code) = PutDtb(Node(dparts), code) BY <1>2 DEF PutDtbIfNew
  <2>2. IsNode(Node(dparts)) BY DEF IsNode, Node
  <2>3. PutDtb(Node(dparts), code) # <<>> /\ PutDtb(Node(dparts), code)[1].do = "dtb"
        /\ PutDtb(Node(dparts), code)[1].node = Node(dparts)
    BY DEF PutDtb
  <2> QED BY <2>1, <2>2, <2>3, Steps
<1> QED BY <1>1, <1>2

(* A refusal is one item, that writes nothing.                             *)
LEMMA Refusals ==
  \A code : /\ AtMost(Refuse(code), {"ept", "refuse"}) /\ AtMost(Refuse(code), {"dtb", "refuse"})
            /\ Refuse(code) # <<>> /\ Refuse(code)[1].do = "refuse"
  BY Steps DEF Refuse, AtMost

(* The table cli_write_ept_from_dtb writes is the one the list stands for; *)
(* when it writes none and does not fail, the table is that one already.   *)
LEMMA EptDerived ==
  ASSUME NEW dparts, NEW code
  PROVE  LET s == EptFromDtb(dparts, code)
         IN /\ AtMost(s, {"ept", "refuse"})
            /\ (s # <<>> /\ s[1].do = "ept") => s[1].new.parts = FromDParts(dparts, capacity).parts
            /\ s = <<>> => content = "dtb" \/ table.parts = FromDParts(dparts, capacity).parts
<1> DEFINE new == FromDParts(dparts, capacity)
           s == EptFromDtb(dparts, code)
<1>1. CASE content = "dtb" BY <1>1 DEF EptFromDtb, AtMost
<1>2. CASE content # "dtb" /\ (capacity = 0 \/ ~new.ok)
  <2>1. s = Refuse(code)
    <3> HIDE DEF new
    <3>1. s = CASE content = "dtb" -> <<>>
               [] content # "dtb" /\ capacity = 0 -> Refuse(code)
               [] OTHER -> IF new.ok THEN PutEptIfNew(Table(new.parts), code) ELSE Refuse(code)
      BY DEF EptFromDtb, new
    <3> HIDE DEF s
    <3> QED BY <1>2, <3>1
  <2> HIDE DEF s
  <2>2. s # <<>> /\ s[1].do = "refuse" /\ AtMost(s, {"ept", "refuse"}) BY <2>1, Refusals
  <2> QED BY <2>2 DEF s
<1>3. CASE content # "dtb" /\ capacity # 0 /\ new.ok
  <2>1. s = PutEptIfNew(Table(new.parts), code)
    <3> HIDE DEF new
    <3>1. s = CASE content = "dtb" -> <<>>
               [] content # "dtb" /\ capacity = 0 -> Refuse(code)
               [] OTHER -> IF new.ok THEN PutEptIfNew(Table(new.parts), code) ELSE Refuse(code)
      BY DEF EptFromDtb, new
    <3> HIDE DEF s
    <3> QED BY <1>3, <3>1
  <2> HIDE DEF s, new
  <2>2. /\ AtMost(s, {"ept"}) /\ (s # <<>> => s[1].do = "ept" /\ s[1].new = Table(new.parts))
        /\ (s = <<>> => table.parts = Table(new.parts).parts)
    BY <2>1, Tables, EptWhenNew
  <2>3. AtMost(s, {"ept", "refuse"}) BY <2>2 DEF AtMost
  <2>4. Table(new.parts).parts = new.parts BY Tables
  <2> QED BY <2>2, <2>3, <2>4 DEF s, new
<1> QED BY <1>1, <1>2, <1>3

(* Nothing is left to do for the DTB that goes with a table.               *)
Reflects(parts) ==
  IF IsPedantic(parts) THEN SameDParts(ToDParts(parts, capacity).dparts)
                       ELSE bhelper # <<>> /\ ~bhelper[1].has

(* The list of a pedantic table is what is written, unless it is there.    *)
LEMMA ListDerived ==
  ASSUME NEW parts, NEW code, IsPedantic(parts)
  PROVE  LET s == PutDtbIfNew(ToDParts(parts, capacity).dparts, code)
         IN /\ AtMost(s, {"dtb"})
            /\ s # <<>> => s[1].do = "dtb" /\ Derived(s[1].node, parts)
            /\ s = <<>> => Reflects(parts)
<1> DEFINE list == ToDParts(parts, capacity).dparts
           s == PutDtbIfNew(list, code)
<1>1. /\ AtMost(s, {"dtb"})
      /\ s # <<>> => s[1].do = "dtb" /\ s[1].node = Node(list)
      /\ s = <<>> => SameDParts(list)
  BY DtbWhenNew
<1> HIDE DEF s
<1>2. Derived(Node(list), parts) BY DEF Derived, Node
<1>3. SameDParts(list) => Reflects(parts) BY DEF Reflects
<1> QED BY <1>1, <1>2, <1>3 DEF s

(* cli_write_dtb_from_ept writes the DTB once at most, or fails; what it   *)
(* writes goes with the table, and nothing is left out but what is there.  *)
LEMMA DtbDerived ==
  ASSUME NEW parts, NEW code
  PROVE  LET s == DtbFromEpt(parts, code)
         IN /\ AtMost(s, {"dtb", "refuse"})
            /\ (s # <<>> /\ s[1].do = "dtb") => Derived(s[1].node, parts)
            /\ s = <<>> => Reflects(parts)
<1> DEFINE new == ToDParts(parts, capacity)
           p == IsPedantic(parts)
           gone == bhelper # <<>> /\ ~bhelper[1].has
           put == PutDtbIfNew(new.dparts, code)
           s == DtbFromEpt(parts, code)
<1>1. s = CASE p /\ new.ok -> put
            [] p /\ ~new.ok -> Refuse(code)
            [] OTHER -> IF gone THEN <<>> ELSE PutDtb(NoNode, code)
  BY DEF DtbFromEpt
<1>2. p => /\ AtMost(put, {"dtb"})
           /\ put # <<>> => put[1].do = "dtb" /\ Derived(put[1].node, parts)
           /\ put = <<>> => Reflects(parts)
  BY ListDerived
<1>3. ~p => Derived(NoNode, parts) /\ (gone => Reflects(parts)) BY DEF Derived, NoNode, Reflects
<1> HIDE DEF new, p, gone, put, s
<1>4. CASE p /\ new.ok
  <2>1. s = put BY <1>1, <1>4
  <2> QED BY <1>2, <1>4, <2>1 DEF AtMost, s
<1>5. CASE p /\ ~new.ok
  <2>1. s = Refuse(code) BY <1>1, <1>5
  <2> QED BY <2>1, Refusals DEF s
<1>6. CASE ~p /\ gone
  <2>1. s = <<>> BY <1>1, <1>6
  <2> QED BY <1>3, <1>6, <2>1 DEF AtMost, s
<1>7. CASE ~p /\ ~gone
  <2>1. s = PutDtb(NoNode, code) BY <1>1, <1>7
  <2>2. IsNode(NoNode) BY DEF IsNode, NoNode
  <2>3. AtMost(s, {"dtb"}) BY <2>1, <2>2, Steps
  <2>4. s # <<>> /\ s[1].node = NoNode BY <2>1 DEF PutDtb
  <2> QED BY <1>3, <1>7, <2>3, <2>4 DEF AtMost, s
<1> QED BY <1>4, <1>5, <1>6, <1>7

(* What dtoe, dclone and dedit are to write, and in which order.           *)
DtbLeads(s, list) ==
  \A k \in DOMAIN s :
    /\ s[k].do = "dtb" => k = 1 /\ s[k].node = Node(list)
    /\ s[k].do = "ept" => k = Len(s) /\ s[k].new.parts = FromDParts(list, capacity).parts

Forward(s, list) ==
  /\ DtbLeads(s, list)
  /\ ~Left(s, "refuse") /\ ~Left(s, "dtb") => SameDParts(list)
  /\ ~Left(s, "refuse") /\ ~Left(s, "ept") =>
       content = "dtb" \/ table.parts = FromDParts(list, capacity).parts

(* What dclone and dedit do with the list they have parsed.                *)
LEMMA DtbThenEptFits ==
  ASSUME NEW list PROVE IsScript(DtbThenEpt(list)) /\ Forward(DtbThenEpt(list), list)
<1> DEFINE a == PutDtbIfNew(list, 4)
           b == EptFromDtb(list, 5)
           s == a \o b
           parts == FromDParts(list, capacity).parts
<1>1. /\ AtMost(a, {"dtb"}) /\ (a # <<>> => a[1].do = "dtb" /\ a[1].node = Node(list))
      /\ (a = <<>> => SameDParts(list))
  BY DtbWhenNew
<1>2. /\ AtMost(b, {"ept", "refuse"})
      /\ ((b # <<>> /\ b[1].do = "ept") => b[1].new.parts = parts)
      /\ (b = <<>> => content = "dtb" \/ table.parts = parts)
  BY EptDerived
<1>3. DtbThenEpt(list) = s BY DEF DtbThenEpt
<1> HIDE DEF a, b, parts
<1>4. /\ IsScript(s)
      /\ \A k \in DOMAIN s :
              \/ k = 1 /\ a # <<>> /\ s[k] = a[1] /\ a[1].do \in {"dtb"}
              \/ k = Len(s) /\ b # <<>> /\ s[k] = b[1] /\ b[1].do \in {"ept", "refuse"}
      /\ \A what : Left(s, what) <=> (a # <<>> /\ a[1].do = what) \/ (b # <<>> /\ b[1].do = what)
  BY <1>1, <1>2, OneAfterAnother
<1> HIDE DEF s
<1>5. b # <<>> => b[1].do \in {"ept", "refuse"} BY <1>2 DEF AtMost
<1> QED BY <1>1, <1>2, <1>3, <1>4, <1>5 DEF Forward, DtbLeads, parts

(* What etod, eclone, eedit and ecreate are to write, and in which order.  *)
EptLeads(s, parts) ==
  /\ \A k \in DOMAIN s :
       /\ s[k].do = "ept" => k = 1 /\ s[k].new.parts = parts
       /\ s[k].do = "dtb" => k = Len(s) /\ Derived(s[k].node, parts)
  /\ Left(s, "dtb") => ~Left(s, "refuse")

Backward(s, parts) ==
  /\ EptLeads(s, parts)
  /\ ~Left(s, "refuse") /\ ~Left(s, "ept") => table.parts = parts
  /\ ~Left(s, "refuse") /\ ~Left(s, "dtb") => Reflects(parts)

(* What eclone, eedit and ecreate do with the table they have made.        *)
LEMMA EptThenDtbFits ==
  ASSUME NEW new, IsTable(new), NEW c, NEW d
  PROVE  LET s == PutEptIfNew(new, c) \o DtbFromEpt(new.parts, d)
         IN IsScript(s) /\ Backward(s, new.parts)
<1> DEFINE a == PutEptIfNew(new, c)
           b == DtbFromEpt(new.parts, d)
           s == a \o b
<1>1. /\ AtMost(a, {"ept"}) /\ (a # <<>> => a[1].do = "ept" /\ a[1].new = new)
      /\ (a = <<>> => table.parts = new.parts)
  BY EptWhenNew
<1>2. /\ AtMost(b, {"dtb", "refuse"})
      /\ ((b # <<>> /\ b[1].do = "dtb") => Derived(b[1].node, new.parts))
      /\ (b = <<>> => Reflects(new.parts))
  BY DtbDerived
<1> HIDE DEF a, b
<1>3. /\ IsScript(s)
      /\ \A k \in DOMAIN s :
              \/ k = 1 /\ a # <<>> /\ s[k] = a[1] /\ a[1].do \in {"ept"}
              \/ k = Len(s) /\ b # <<>> /\ s[k] = b[1] /\ b[1].do \in {"dtb", "refuse"}
      /\ \A what : Left(s, what) <=> (a # <<>> /\ a[1].do = what) \/ (b # <<>> /\ b[1].do = what)
  BY <1>1, <1>2, OneAfterAnother
<1> HIDE DEF s
<1>4. b # <<>> => b[1].do \in {"dtb", "refuse"} BY <1>2 DEF AtMost
<1> DEFINE parts == new.parts
<1>5. EptLeads(s, parts)
  <2>1. \A k \in DOMAIN s : s[k].do = "ept" => k = 1 /\ s[k].new.parts = parts
    BY <1>1, <1>3, <1>4
  <2>2. ASSUME NEW k \in DOMAIN s, s[k].do = "dtb" PROVE k = Len(s) /\ Derived(s[k].node, parts)
    <3>1. k = Len(s) /\ b # <<>> /\ s[k] = b[1] BY <1>3, <2>2
    <3> QED BY <1>2, <2>2, <3>1
  <2>3. Left(s, "dtb") => ~Left(s, "refuse") BY <1>1, <1>3, <1>4
  <2> QED BY <2>1, <2>2, <2>3 DEF EptLeads
<1>6. ~Left(s, "refuse") /\ ~Left(s, "ept") => table.parts = parts BY <1>1, <1>3
<1>7. ~Left(s, "refuse") /\ ~Left(s, "dtb") => Reflects(parts) BY <1>2, <1>3, <1>4
<1>8. Backward(s, new.parts) BY <1>5, <1>6, <1>7 DEF Backward
<1> QED BY <1>3, <1>8 DEF s, a, b

(* dtoe writes the table of the list in memory, if it is not there.        *)
LEMMA EptAloneFits ==
  ASSUME bhelper # <<>>
  PROVE  LET list == bhelper[1].parts
             s == PutEptIfNew(Table(FromDParts(list, capacity).parts), 5)
         IN IsScript(s) /\ Forward(s, list)
<1> DEFINE list == bhelper[1].parts
           parts == FromDParts(list, capacity).parts
           s == PutEptIfNew(Table(parts), 5)
<1>1. IsTable(Table(parts)) /\ Table(parts).parts = parts BY Tables
<1>2. /\ AtMost(s, {"ept"}) /\ (s # <<>> => s[1].do = "ept" /\ s[1].new = Table(parts))
      /\ (s = <<>> => table.parts = Table(parts).parts)
  BY <1>1, EptWhenNew
<1>3. SameDParts(list) BY DEF SameDParts
<1> HIDE DEF s, list
<1>4. CASE s = <<>>
  <2>1. IsScript(s) BY <1>4 DEF IsScript
  <2>2. Forward(s, list) BY <1>1, <1>2, <1>3, <1>4 DEF Forward, DtbLeads, parts
  <2> QED BY <2>1, <2>2 DEF s, list
<1>5. CASE \E x : s = <<x>> /\ IsItem(x) /\ x.do \in {"ept"}
  <2>1. PICK x : s = <<x>> /\ IsItem(x) BY <1>5
  <2>2. IsScript(s) BY <2>1 DEF IsScript
  <2>3. DOMAIN s = {1} /\ Len(s) = 1 /\ s # <<>> BY <2>1
  <2>4. Left(s, "ept") BY <1>2, <2>3 DEF Left
  <2>5. DtbLeads(s, list) BY <1>1, <1>2, <2>3 DEF DtbLeads, parts
  <2>6. Forward(s, list) BY <1>3, <2>4, <2>5 DEF Forward
  <2> QED BY <2>2, <2>6 DEF s, list
<1> QED BY <1>2, <1>4, <1>5 DEF AtMost

(* etod writes the list of the table in memory, if it is not there.        *)
LEMMA DtbAloneFits ==
  ASSUME IsPedantic(table.parts)
  PROVE  LET s == PutDtbIfNew(ToDParts(table.parts, capacity).dparts, 4)
         IN IsScript(s) /\ Backward(s, table.parts)
<1> DEFINE parts == table.parts
           s == PutDtbIfNew(ToDParts(parts, capacity).dparts, 4)
<1>1. /\ AtMost(s, {"dtb"}) /\ (s # <<>> => s[1].do = "dtb" /\ Derived(s[1].node, parts))
      /\ (s = <<>> => Reflects(parts))
  BY ListDerived
<1> HIDE DEF s, parts
<1>2. CASE s = <<>>
  <2>1. IsScript(s) BY <1>2 DEF IsScript
  <2>2. Backward(s, parts) BY <1>1, <1>2 DEF Backward, EptLeads, Left, parts
  <2> QED BY <2>1, <2>2 DEF s, parts
<1>3. CASE \E x : s = <<x>> /\ IsItem(x) /\ x.do \in {"dtb"}
  <2>1. PICK x : s = <<x>> /\ IsItem(x) BY <1>3
  <2>2. IsScript(s) BY <2>1 DEF IsScript
  <2>3. DOMAIN s = {1} /\ Len(s) = 1 /\ s # <<>> BY <2>1
  <2>4. Left(s, "dtb") /\ ~Left(s, "refuse") BY <1>1, <2>3 DEF Left
  <2>5. EptLeads(s, parts) BY <1>1, <2>3, <2>4 DEF EptLeads
  <2>6. Backward(s, parts) BY <2>4, <2>5 DEF Backward, parts
  <2> QED BY <2>2, <2>6 DEF s, parts
<1> QED BY <1>1, <1>2, <1>3 DEF AtMost

(* A mode that refuses breaks neither order.                               *)
LEMMA RefusalFits ==
  ASSUME NEW code, NEW list
  PROVE  /\ IsScript(Refuse(code)) /\ Left(Refuse(code), "refuse")
         /\ ~Left(Refuse(code), "ept") /\ ~Left(Refuse(code), "dtb")
         /\ Forward(Refuse(code), list) /\ Backward(Refuse(code), list)
<1>1. IsScript(Refuse(code)) BY Steps DEF AtMost, IsScript
<1>2. /\ Left(Refuse(code), "refuse")
      /\ ~Left(Refuse(code), "ept") /\ ~Left(Refuse(code), "dtb")
  BY DEF Left, Refuse
<1>3. \A k \in DOMAIN Refuse(code) : Refuse(code)[k].do = "refuse" BY DEF Refuse
<1> QED BY <1>1, <1>2, <1>3 DEF Forward, Backward, DtbLeads, EptLeads

(* What every mode decides, if it does not refuse.                         *)
Decides(r) ==
  LET s == Script(r)
      rebuilt == FromDParts(bhelper[1].parts, capacity)
      kept == ToDParts(table.parts, capacity)
      dcloned == DcloneParsed(r.args)
      eedited == EeditParsed(table.parts, capacity, r.args)
      ecloned == EcloneParsed(r.args, capacity)
      ecreated == EcreateParsed(table.parts, capacity, r.args)
  IN \/ (\E code : s = Refuse(code)) /\ (r.mode \in {"dclone", "eclone"} => r.args # <<>>)
     \/ r.mode \in {"dclone", "eclone"} /\ r.args = <<>> /\ s = <<>>
     \/ /\ r.mode = "dtoe" /\ bhelper # <<>> /\ rebuilt.ok
        /\ s = PutEptIfNew(Table(rebuilt.parts), 5)
     \/ /\ r.mode = "etod" /\ IsPedantic(table.parts) /\ kept.ok
        /\ s = PutDtbIfNew(kept.dparts, 4)
     \/ r.mode = "dclone" /\ r.args # <<>> /\ dcloned.ok /\ s = DtbThenEpt(dcloned.parts)
     \/ r.mode = "dedit" /\ s = DtbThenEpt(DeditParsed(bhelper[1].parts, r.args).parts)
     \/ /\ r.mode = "eclone" /\ r.args # <<>>
        /\ s = PutEptIfNew(Table(ecloned.parts), 4) \o DtbFromEpt(ecloned.parts, 5)
     \/ /\ r.mode = "eedit"
        /\ s = PutEptIfNew(Reheaded(eedited.parts), 3) \o DtbFromEpt(eedited.parts, 4)
     \/ /\ r.mode = "ecreate"
        /\ s = PutEptIfNew(Table(ecreated.parts), 4) \o DtbFromEpt(ecreated.parts, 5)

LEMMA ScriptIs ==
  ASSUME NEW r, r.mode \in {"dtoe", "etod", "dedit", "dclone", "eedit", "eclone", "ecreate"}
  PROVE  Decides(r)
<1> DEFINE s == Script(r)
           args == r.args
<1>1. CASE r.mode = "dtoe"
  <2> DEFINE new == FromDParts(bhelper[1].parts, capacity)
             put == PutEptIfNew(Table(new.parts), 5)
             agree == BuffersAgree
             ok == new.ok
  <2>1. s = CASE bhelper = <<>> -> Refuse(1)
              [] bhelper # <<>> /\ ~agree -> Refuse(2)
              [] bhelper # <<>> /\ agree /\ capacity = 0 -> Refuse(3)
              [] OTHER -> IF ok THEN put ELSE Refuse(4)
    BY <1>1 DEF Script, Dtoe
  <2> HIDE DEF put, agree, s, ok
  <2>2. (\E code : s = Refuse(code)) \/ (bhelper # <<>> /\ ok /\ s = put)
    <3>1. CASE bhelper = <<>> BY <2>1, <3>1
    <3>2. CASE bhelper # <<>> /\ ~agree BY <2>1, <3>2
    <3>3. CASE bhelper # <<>> /\ agree /\ capacity = 0 BY <2>1, <3>3
    <3>4. CASE bhelper # <<>> /\ agree /\ capacity # 0
      <4>1. s = IF ok THEN put ELSE Refuse(4) BY <2>1, <3>4
      <4> QED BY <3>4, <4>1
    <3> QED BY <3>1, <3>2, <3>3, <3>4
  <2> QED BY <1>1, <2>2 DEF s, put, ok, Decides
<1>2. CASE r.mode = "etod"
  <2> DEFINE new == ToDParts(table.parts, capacity)
             put == PutDtbIfNew(new.dparts, 4)
             v == ValidTable(table)
             p == IsPedantic(table.parts)
             ok == new.ok
  <2>1. s = CASE table.parts = <<>> \/ ~v -> Refuse(-2)
              [] v /\ ~p -> Refuse(1)
              [] OTHER -> IF ~ok THEN Refuse(3)
                          ELSE IF bhelper = <<>> THEN Refuse(-9) ELSE put
    BY <1>2 DEF Script, Etod
  <2> HIDE DEF put, v, p, s, ok
  <2>2. (\E code : s = Refuse(code)) \/ (p /\ ok /\ s = put)
    <3>1. CASE table.parts = <<>> \/ ~v
      <4>1. CASE v /\ ~p
        <5>1. s = Refuse(-2) \/ s = Refuse(1) BY <2>1, <3>1, <4>1
        <5> QED BY <5>1
      <4>2. CASE ~(v /\ ~p)
        <5>1. s = Refuse(-2) BY <2>1, <3>1, <4>2
        <5> QED BY <5>1
      <4> QED BY <4>1, <4>2
    <3>2. CASE table.parts # <<>> /\ v /\ ~p BY <2>1, <3>2
    <3>3. CASE table.parts # <<>> /\ v /\ p
      <4>1. s = IF ~ok THEN Refuse(3) ELSE IF bhelper = <<>> THEN Refuse(-9) ELSE put
        BY <2>1, <3>3
      <4>2. s = Refuse(3) \/ s = Refuse(-9) \/ (ok /\ s = put) BY <4>1
      <4> QED BY <3>3, <4>2
    <3> QED BY <3>1, <3>2, <3>3
  <2> QED BY <1>2, <2>2 DEF s, put, p, ok, Decides
<1>3. CASE r.mode = "dclone"
  <2> DEFINE new == DcloneParsed(args)
             put == DtbThenEpt(new.parts)
             ok == new.ok
  <2>1. s = CASE args = <<>> -> <<>>
              [] Len(args) > MaxParts -> Refuse(1)
              [] args # <<>> /\ Len(args) <= MaxParts /\ bhelper = <<>> -> Refuse(2)
              [] OTHER -> IF ok THEN put ELSE Refuse(3)
    BY <1>3 DEF Script, Dclone
  <2> HIDE DEF put, s, args, ok
  <2>2. CASE args = <<>>
    <3>1. s = <<>>
      <4>1. CASE Len(args) > MaxParts
        <5>1. Len(<<>>) = 0 OBVIOUS
        <5> QED BY <2>2, <4>1, <5>1, TableAssumption
      <4>2. CASE ~(Len(args) > MaxParts) BY <2>1, <2>2, <4>2
      <4> QED BY <4>1, <4>2
    <3> QED BY <1>3, <2>2, <3>1 DEF s, args, Decides
  <2>3. CASE args # <<>>
    <3>1. (\E code : s = Refuse(code)) \/ (ok /\ s = put)
      <4>1. CASE Len(args) > MaxParts
        <5>1. s = Refuse(1) \/ s = Refuse(2) BY <2>1, <2>3, <4>1
        <5> QED BY <5>1
      <4>2. CASE ~(Len(args) > MaxParts) /\ Len(args) <= MaxParts /\ bhelper = <<>>
        <5>1. s = Refuse(2) BY <2>1, <2>3, <4>2
        <5> QED BY <5>1
      <4>3. CASE ~(Len(args) > MaxParts) /\ ~(Len(args) <= MaxParts /\ bhelper = <<>>)
        <5>1. s = IF ok THEN put ELSE Refuse(3) BY <2>1, <2>3, <4>3
        <5> QED BY <5>1
      <4> QED BY <4>1, <4>2, <4>3
    <3> QED BY <1>3, <2>3, <3>1 DEF s, args, put, ok, Decides
  <2> QED BY <2>2, <2>3
<1>4. CASE r.mode = "dedit"
  <2> DEFINE new == DeditParsed(bhelper[1].parts, args)
             put == DtbThenEpt(new.parts)
             abort == Parsed("dedit", args) = "aborted"
  <2>1. s = CASE args = <<>> -> Refuse(-1)
              [] args # <<>> /\ bhelper = <<>> -> Refuse(-9)
              [] args # <<>> /\ bhelper # <<>> /\ abort -> Refuse(-9)
              [] OTHER -> IF new.ok THEN put ELSE Refuse(3)
    BY <1>4 DEF Script, Dedit
  <2> HIDE DEF new, put, s, abort, args
  <2>2. (\E code : s = Refuse(code)) \/ s = put
    <3>1. CASE args = <<>> BY <2>1, <3>1
    <3>2. CASE args # <<>> /\ (bhelper = <<>> \/ abort) BY <2>1, <3>2
    <3>3. CASE args # <<>> /\ bhelper # <<>> /\ ~abort BY <2>1, <3>3
    <3> QED BY <3>1, <3>2, <3>3
  <2> QED BY <1>4, <2>2 DEF s, args, new, put, Decides
<1>5. CASE r.mode = "eclone"
  <2> DEFINE new == EcloneParsed(args, capacity)
             put == PutEptIfNew(Table(new.parts), 4) \o DtbFromEpt(new.parts, 5)
  <2>1. s = CASE args = <<>> -> <<>>
              [] Len(args) > MaxParts -> Refuse(1)
              [] args # <<>> /\ Len(args) <= MaxParts /\ capacity = 0 -> Refuse(2)
              [] OTHER -> IF new.ok THEN put ELSE Refuse(3)
    BY <1>5 DEF Script, Eclone
  <2> HIDE DEF new, put, s, args
  <2>2. CASE args = <<>>
    <3>1. s = <<>>
      <4>1. CASE Len(args) > MaxParts
        <5>1. Len(<<>>) = 0 OBVIOUS
        <5> QED BY <2>2, <4>1, <5>1, TableAssumption
      <4>2. CASE ~(Len(args) > MaxParts) BY <2>1, <2>2, <4>2
      <4> QED BY <4>1, <4>2
    <3> QED BY <1>5, <2>2, <3>1 DEF s, args, Decides
  <2>3. CASE args # <<>>
    <3>1. (\E code : s = Refuse(code)) \/ s = put
      <4>1. CASE Len(args) > MaxParts
        <5>1. s = Refuse(1) \/ s = Refuse(2) BY <2>1, <2>3, <4>1
        <5> QED BY <5>1
      <4>2. CASE ~(Len(args) > MaxParts) /\ Len(args) <= MaxParts /\ capacity = 0
        <5>1. s = Refuse(2) BY <2>1, <2>3, <4>2
        <5> QED BY <5>1
      <4>3. CASE ~(Len(args) > MaxParts) /\ ~(Len(args) <= MaxParts /\ capacity = 0)
        <5>1. s = IF new.ok THEN put ELSE Refuse(3) BY <2>1, <2>3, <4>3
        <5> QED BY <5>1
      <4> QED BY <4>1, <4>2, <4>3
    <3> QED BY <1>5, <2>3, <3>1 DEF s, args, new, put, Decides
  <2> QED BY <2>2, <2>3
<1>6. CASE r.mode = "eedit"
  <2> DEFINE new == EeditParsed(table.parts, capacity, args)
             put == PutEptIfNew(Reheaded(new.parts), 3) \o DtbFromEpt(new.parts, 4)
             abort == Parsed("eedit", args) = "aborted"
  <2>1. s = CASE args = <<>> -> Refuse(-1)
              [] args # <<>> /\ capacity = 0 -> Refuse(1)
              [] args # <<>> /\ capacity # 0 /\ abort -> Refuse(-9)
              [] OTHER -> IF new.ok THEN put ELSE Refuse(2)
    BY <1>6 DEF Script, Eedit
  <2> HIDE DEF new, put, s, abort, args
  <2>2. (\E code : s = Refuse(code)) \/ s = put
    <3>1. CASE args = <<>> BY <2>1, <3>1
    <3>2. CASE args # <<>> /\ capacity = 0 BY <2>1, <3>2
    <3>3. CASE args # <<>> /\ capacity # 0 BY <2>1, <3>3
    <3> QED BY <3>1, <3>2, <3>3
  <2> QED BY <1>6, <2>2 DEF s, args, new, put, Decides
<1>7. CASE r.mode = "ecreate"
  <2> DEFINE new == EcreateParsed(table.parts, capacity, args)
             put == PutEptIfNew(Table(new.parts), 4) \o DtbFromEpt(new.parts, 5)
             many == Len(args) > MaxParts
             few == Len(args) <= MaxParts
  <2>1. s = CASE many -> Refuse(-1)
              [] few /\ capacity = 0 -> Refuse(2)
              [] OTHER -> IF new.ok THEN put ELSE Refuse(3)
    BY <1>7 DEF Script, Ecreate
  <2> HIDE DEF new, put, s, many, few, args
  <2>2. (\E code : s = Refuse(code)) \/ s = put
    <3>1. CASE many \/ (few /\ capacity = 0)
      <4>1. s = Refuse(-1) \/ s = Refuse(2) BY <2>1, <3>1
      <4> QED BY <4>1
    <3>2. CASE ~many /\ ~(few /\ capacity = 0) BY <2>1, <3>2
    <3> QED BY <3>1, <3>2
  <2> QED BY <1>7, <2>2 DEF s, args, new, put, Decides
<1> QED BY <1>1, <1>2, <1>3, <1>4, <1>5, <1>6, <1>7

(* The script of every mode: at most two writes, in the order of the mode, *)
(* and without a refusal nothing is left out that was not there already.   *)
(* Only dclone and eclone end well without arguments, with nothing to do.  *)
LEMMA ScriptFits ==
  ASSUME NEW r, r.mode \in {"dtoe", "etod", "dedit", "dclone", "eedit", "eclone", "ecreate"},
         IsTable(table)
  PROVE  LET s == Script(r)
             cloned == DcloneParsed(r.args)
         IN /\ IsScript(s)
            /\ (r.mode \in {"dclone", "eclone"} /\ r.args = <<>>) => s = <<>>
            /\ (r.mode = "dclone" /\ r.args # <<>>) =>
                 Forward(s, cloned.parts) /\ (Left(s, "refuse") \/ cloned.ok)
            /\ r.mode = "dedit" => Forward(s, DeditParsed(bhelper[1].parts, r.args).parts)
            /\ r.mode = "dtoe" => Forward(s, bhelper[1].parts)
            /\ r.mode = "etod" => Backward(s, table.parts)
            /\ (r.mode = "eclone" /\ r.args # <<>>) =>
                 Backward(s, EcloneParsed(r.args, capacity).parts)
            /\ r.mode = "eedit" => Backward(s, EeditParsed(table.parts, capacity, r.args).parts)
            /\ r.mode = "ecreate" => Backward(s, EcreateParsed(table.parts, capacity, r.args).parts)
<1> DEFINE s == Script(r)
           rebuilt == FromDParts(bhelper[1].parts, capacity)
           kept == ToDParts(table.parts, capacity)
           dcloned == DcloneParsed(r.args)
           dedited == DeditParsed(bhelper[1].parts, r.args).parts
           eedited == EeditParsed(table.parts, capacity, r.args).parts
           ecloned == EcloneParsed(r.args, capacity).parts
           ecreated == EcreateParsed(table.parts, capacity, r.args).parts
           new1 == Table(rebuilt.parts)
           new2 == Table(ecloned)
           new3 == Reheaded(eedited)
           new4 == Table(ecreated)
<1>1. \/ (\E code : s = Refuse(code)) /\ (r.mode \in {"dclone", "eclone"} => r.args # <<>>)
      \/ r.mode \in {"dclone", "eclone"} /\ r.args = <<>> /\ s = <<>>
      \/ r.mode = "dtoe" /\ bhelper # <<>> /\ s = PutEptIfNew(new1, 5)
      \/ r.mode = "etod" /\ IsPedantic(table.parts) /\ s = PutDtbIfNew(kept.dparts, 4)
      \/ r.mode = "dclone" /\ r.args # <<>> /\ dcloned.ok /\ s = DtbThenEpt(dcloned.parts)
      \/ r.mode = "dedit" /\ s = DtbThenEpt(dedited)
      \/ r.mode = "eclone" /\ r.args # <<>> /\ s = PutEptIfNew(new2, 4) \o DtbFromEpt(ecloned, 5)
      \/ r.mode = "eedit" /\ s = PutEptIfNew(new3, 3) \o DtbFromEpt(eedited, 4)
      \/ r.mode = "ecreate" /\ s = PutEptIfNew(new4, 4) \o DtbFromEpt(ecreated, 5)
  <2>1. Decides(r) BY ScriptIs
  <2> QED BY <2>1 DEF Decides
<1>2. /\ IsTable(new2) /\ new2.parts = ecloned /\ IsTable(new3) /\ new3.parts = eedited
      /\ IsTable(new4) /\ new4.parts = ecreated
  BY Tables
<1>3. IsScript(<<>>) BY DEF IsScript
<1>4. bhelper # <<>> => IsScript(PutEptIfNew(new1, 5)) /\ Forward(PutEptIfNew(new1, 5), bhelper[1].parts)
  BY EptAloneFits
<1>5. IsPedantic(table.parts) =>
        IsScript(PutDtbIfNew(kept.dparts, 4)) /\ Backward(PutDtbIfNew(kept.dparts, 4), table.parts)
  BY DtbAloneFits
<1> HIDE DEF s, rebuilt, kept, dcloned, dedited, eedited, ecloned, ecreated, new1, new2, new3, new4
<1>6. \A list : IsScript(DtbThenEpt(list)) /\ Forward(DtbThenEpt(list), list) BY DtbThenEptFits
<1>7. /\ IsScript(PutEptIfNew(new2, 4) \o DtbFromEpt(ecloned, 5))
      /\ Backward(PutEptIfNew(new2, 4) \o DtbFromEpt(ecloned, 5), ecloned)
  BY <1>2, EptThenDtbFits
<1>8. /\ IsScript(PutEptIfNew(new3, 3) \o DtbFromEpt(eedited, 4))
      /\ Backward(PutEptIfNew(new3, 3) \o DtbFromEpt(eedited, 4), eedited)
  BY <1>2, EptThenDtbFits
<1>9. /\ IsScript(PutEptIfNew(new4, 4) \o DtbFromEpt(ecreated, 5))
      /\ Backward(PutEptIfNew(new4, 4) \o DtbFromEpt(ecreated, 5), ecreated)
  BY <1>2, EptThenDtbFits
<1>10. IsScript(s) BY <1>1, <1>3, <1>4, <1>5, <1>6, <1>7, <1>8, <1>9, RefusalFits
<1>11. (r.mode = "dclone" /\ r.args # <<>>) =>
         Forward(s, dcloned.parts) /\ (Left(s, "refuse") \/ dcloned.ok)
  BY <1>1, <1>6, RefusalFits
<1>12. r.mode = "dedit" => Forward(s, dedited) BY <1>1, <1>6, RefusalFits
<1>13. (r.mode = "eclone" /\ r.args # <<>>) => Backward(s, ecloned) BY <1>1, <1>7, RefusalFits
<1>14. r.mode = "eedit" => Backward(s, eedited) BY <1>1, <1>8, RefusalFits
<1>15. r.mode = "ecreate" => Backward(s, ecreated) BY <1>1, <1>9, RefusalFits
<1>16. (r.mode \in {"dclone", "eclone"} /\ r.args = <<>>) => s = <<>> BY <1>1
<1>17. r.mode = "dtoe" => Forward(s, bhelper[1].parts) BY <1>1, <1>4, RefusalFits
<1>18. r.mode = "etod" => Backward(s, table.parts) BY <1>1, <1>5, RefusalFits
<1> QED BY <1>10, <1>11, <1>12, <1>13, <1>14, <1>15, <1>16, <1>17, <1>18
        DEF s, dcloned, dedited, eedited, ecloned, ecreated

(* Once the first item of a script is done, the rest is a script and the   *)
(* item is in it no more.                                                  *)
LEMMA Popped ==
  ASSUME NEW s, IsScript(s), s # <<>>
  PROVE  /\ Head(s) = s[1] /\ IsItem(s[1]) /\ IsScript(Tail(s))
         /\ 1 \in DOMAIN s
         /\ Len(s) \in 1 .. 2 /\ Len(Tail(s)) = Len(s) - 1
         /\ DOMAIN s = 1 .. Len(s) /\ DOMAIN Tail(s) = 1 .. Len(s) - 1
         /\ \A k \in DOMAIN Tail(s) : k + 1 \in DOMAIN s /\ Tail(s)[k] = s[k + 1]
         /\ \A what : Left(s, what) <=> s[1].do = what \/ Left(Tail(s), what)
         /\ ~Left(Tail(s), s[1].do)
<1>1. ASSUME NEW x, s = <<x>>, IsItem(x)
      PROVE  Tail(s) = <<>> /\ Head(s) = x /\ s[1] = x /\ Len(s) = 1 /\ Len(Tail(s)) = 0
             /\ DOMAIN s = {1} /\ DOMAIN Tail(s) = {}
  BY <1>1
<1>2. ASSUME NEW x, NEW y, s = <<x, y>>, IsItem(x), IsItem(y), x.do # y.do
      PROVE  Tail(s) = <<y>> /\ Head(s) = x /\ s[1] = x /\ s[2] = y /\ Len(s) = 2
             /\ Len(Tail(s)) = 1 /\ DOMAIN s = {1, 2} /\ DOMAIN Tail(s) = {1} /\ Tail(s)[1] = y
  BY <1>2
<1>3. CASE \E x : s = <<x>> /\ IsItem(x)
  <2>1. PICK x : s = <<x>> /\ IsItem(x) BY <1>3
  <2>2. Tail(s) = <<>> /\ Head(s) = x /\ s[1] = x /\ Len(s) = 1 /\ Len(Tail(s)) = 0
        /\ DOMAIN s = {1} /\ DOMAIN Tail(s) = {}
    BY <1>1, <2>1
  <2>3. IsScript(Tail(s)) BY <2>2 DEF IsScript
  <2> DEFINE t == Tail(s)
  <2>4. /\ t = <<>> /\ Len(t) = 0 /\ DOMAIN t = {} /\ IsScript(t) BY <2>2, <2>3
  <2> HIDE DEF t
  <2>5. \A what : Left(s, what) <=> s[1].do = what BY <2>2 DEF Left
  <2>6. \A what : ~Left(t, what) BY <2>4 DEF Left
  <2>7. Len(s) \in 1 .. 2 /\ Len(t) = Len(s) - 1 /\ DOMAIN s = 1 .. Len(s) /\ DOMAIN t = 1 .. Len(s) - 1
    BY <2>2, <2>4
  <2> QED BY <2>1, <2>2, <2>4, <2>5, <2>6, <2>7 DEF t
<1>4. CASE \E x, y : s = <<x, y>> /\ IsItem(x) /\ IsItem(y) /\ x.do # y.do
  <2>1. PICK x, y : s = <<x, y>> /\ IsItem(x) /\ IsItem(y) /\ x.do # y.do BY <1>4
  <2>2. Tail(s) = <<y>> /\ Head(s) = x /\ s[1] = x /\ s[2] = y /\ Len(s) = 2
        /\ Len(Tail(s)) = 1 /\ DOMAIN s = {1, 2} /\ DOMAIN Tail(s) = {1} /\ Tail(s)[1] = y
    BY <1>2, <2>1
  <2>3. IsScript(Tail(s)) BY <2>1, <2>2 DEF IsScript
  <2> DEFINE t == Tail(s)
  <2>4. Len(t) = 1 /\ DOMAIN t = {1} /\ t[1] = y /\ IsScript(t) BY <2>2, <2>3
  <2> HIDE DEF t
  <2>5. \A what : Left(s, what) <=> x.do = what \/ y.do = what BY <2>2 DEF Left
  <2>6. \A what : Left(t, what) <=> y.do = what BY <2>4 DEF Left
  <2>7. Len(s) \in 1 .. 2 /\ Len(t) = Len(s) - 1 /\ DOMAIN s = 1 .. Len(s) /\ DOMAIN t = 1 .. Len(s) - 1
    BY <2>2, <2>4
  <2> QED BY <2>1, <2>2, <2>4, <2>5, <2>6, <2>7 DEF t
<1> QED BY <1>3, <1>4 DEF IsScript

(* The rest of a script is in the order of its mode too, and what is       *)
(* written last leaves nothing.                                            *)
LEMMA LeadsOn ==
  ASSUME NEW s, IsScript(s), s # <<>>, NEW list
  PROVE  /\ DtbLeads(s, list) => DtbLeads(Tail(s), list)
         /\ EptLeads(s, list) => EptLeads(Tail(s), list)
         /\ DtbLeads(s, list) /\ s[1].do = "ept" => Tail(s) = <<>>
         /\ EptLeads(s, list) /\ s[1].do = "dtb" => Tail(s) = <<>>
<1> DEFINE t == Tail(s)
<1>1. /\ Len(s) \in 1 .. 2 /\ Len(t) = Len(s) - 1 /\ 1 \in DOMAIN s
      /\ DOMAIN s = 1 .. Len(s) /\ DOMAIN t = 1 .. Len(s) - 1
      /\ \A k \in DOMAIN t : k + 1 \in DOMAIN s /\ t[k] = s[k + 1]
      /\ \A what : Left(s, what) <=> s[1].do = what \/ Left(t, what)
      /\ IsScript(t)
  BY Popped
<1> HIDE DEF t
<1>2. Len(s) = 1 => t = <<>>
  <2>1. (\E x : t = <<x>>) => Len(t) = 1 OBVIOUS
  <2>2. (\E x, y : t = <<x, y>>) => Len(t) = 2 OBVIOUS
  <2> QED BY <1>1, <2>1, <2>2 DEF IsScript
<1>3. DtbLeads(s, list) => DtbLeads(t, list) BY <1>1 DEF DtbLeads
<1>4. EptLeads(s, list) => EptLeads(t, list) BY <1>1 DEF EptLeads
<1>5. DtbLeads(s, list) /\ s[1].do = "ept" => Len(s) = 1 BY <1>1 DEF DtbLeads
<1>6. EptLeads(s, list) /\ s[1].do = "dtb" => Len(s) = 1 BY <1>1 DEF EptLeads
<1> QED BY <1>2, <1>3, <1>4, <1>5, <1>6 DEF t

(***************************************************************************)
(* The inductive invariant                                                 *)
(***************************************************************************)
running == pc \notin {"idle", "decide"}

(* The list the DTB is to hold is known, and the DTBs were alike.          *)
Follows ==
  /\ Uniform(before)
  /\ \/ request.mode = "dclone" /\ request.args # <<>>
     \/ request.mode \in {"dtoe", "dedit"} /\ before[1].has

Precedes ==
  \/ request.mode \in {"etod", "eedit", "ecreate"}
  \/ request.mode = "eclone" /\ request.args # <<>>

Holds(list) == \A k \in DOMAIN view : view[k] = Node(list)

Scripted ==
  running => /\ IsScript(script)
             /\ (request.mode \in {"dclone", "eclone"} /\ request.args = <<>>) => script = <<>>

DtbThenTable ==
  (running /\ Follows) =>
    /\ DtbLeads(script, WantedDParts)
    /\ (~Left(script, "refuse") /\ ~request.dry_run) =>
         /\ ~Left(script, "dtb") => Holds(WantedDParts)
         /\ ~Left(script, "ept") =>
              content = "dtb" \/ ept.parts = FromDParts(WantedDParts, capacity).parts

TableThenDtb ==
  (running /\ Precedes) =>
    /\ EptLeads(script, WantedParts)
    /\ (~Left(script, "refuse") /\ ~request.dry_run /\ content # "dtb") =>
         /\ ~Left(script, "ept") => ept.parts = WantedParts
         /\ (~Left(script, "dtb") /\ Uniform(before)) =>
              \A k \in DOMAIN view : Derived(view[k], WantedParts)

(* Between two writes the copies are as found, or the DTB has been synced. *)
Fresh == pc \in {"decide", "run"} => copies = begun \/ Sealed

Copied ==
  pc \in {"first", "second", "sync"} =>
    /\ script # <<>> /\ script[1].do = "dtb" /\ ~request.dry_run
    /\ pc = "second" => content # "dtb" /\ copies[1] = composed
    /\ pc = "sync" => \A k \in Hands : copies[k] = composed

(* A copy as the run found it, and one it has written                      *)
Old(c) == c.sum /\ c.dtbs = before
New(c) == c.sum /\ DOMAIN c.dtbs = DOMAIN before /\ Uniform(c.dtbs)

Survives ==
  (intact /\ ~outage /\ content # "dtb") =>
    /\ pc \in {"decide", "first"} => Old(copies[1]) /\ Old(copies[2])
    /\ pc = "run" => \/ Old(copies[1]) /\ Old(copies[2])
                     \/ ~Left(script, "dtb") /\ New(copies[1]) /\ New(copies[2])
    /\ pc = "second" => New(copies[1]) /\ Old(copies[2])
    /\ pc = "sync" => New(copies[1]) /\ New(copies[2])
    /\ pc = "idle" => view = before \/ New(copies[1])

IInv ==
  /\ Typed /\ HasRead /\ Scripted /\ DtbThenTable /\ TableThenDtb /\ Copied
  /\ Fresh /\ Survives /\ Delivered

(* The list of one value n times has length n.                             *)
LEMMA Steady ==
  ASSUME NEW n \in Nat, NEW x
  PROVE  Len([k \in 1 .. n |-> x]) = n /\ DOMAIN [k \in 1 .. n |-> x] = 1 .. n
<1> DEFINE f == [k \in 1 .. n |-> x]
<1>1. f \in [1 .. n -> {x}] OBVIOUS
<1>2. f \in Seq({x}) BY <1>1
<1>3. DOMAIN f = 1 .. n /\ DOMAIN f = 1 .. Len(f) /\ Len(f) \in Nat BY <1>2
<1> HIDE DEF f
<1>4. Len(f) = n BY <1>3
<1> QED BY <1>3, <1>4 DEF f

(* What is written to a copy: as many DTBs as the run found, all with the  *)
(* new node.                                                               *)
LEMMA ComposedFits ==
  ASSUME HasRead, pc # "idle", NEW node, IsNode(node)
  PROVE  /\ IsCopy(Composed(node)) /\ New(Composed(node))
         /\ \A k \in DOMAIN Composed(node).dtbs : Composed(node).dtbs[k] = node
<1> DEFINE n == Len(before)
           d == [k \in 1 .. n |-> node]
<1>1. n \in Nat /\ DOMAIN before = 1 .. n BY DEF HasRead, IsList
<1>2. DOMAIN bhelper = 1 .. n
  <2>1. CASE bhelper = before BY <1>1, <2>1
  <2>2. CASE Unfilled(bhelper, before)
    <3>1. PICK g : bhelper = <<[has |-> FALSE, parts |-> g]>> BY <2>2 DEF Unfilled
    <3>2. n = 1 BY <2>2 DEF Unfilled
    <3>3. DOMAIN bhelper = 1 .. 1 BY <3>1
    <3> QED BY <3>2, <3>3
  <2> QED BY <2>1, <2>2 DEF HasRead
<1> HIDE DEF n
<1>3. Composed(node) = [sum |-> TRUE, dtbs |-> d] BY <1>2 DEF Composed, Copy
<1>4. Len(d) = n /\ DOMAIN d = 1 .. n BY <1>1, Steady
<1>5. (\A k \in 1 .. n : d[k] = node) /\ d = [k \in DOMAIN d |-> d[k]] OBVIOUS
<1> HIDE DEF d
<1>6. IsCopy(Composed(node)) BY <1>1, <1>3, <1>4, <1>5 DEF IsCopy, IsList
<1>7. New(Composed(node)) BY <1>1, <1>3, <1>4, <1>5 DEF New, Uniform
<1> QED BY <1>3, <1>4, <1>5, <1>6, <1>7

(* Which copy a reader of c takes: the first if its checksum is right, the *)
(* second if only that one is.                                             *)
LEMMA Seen ==
  ASSUME NEW c
  PROVE  /\ content = "dtb" => Chosen(c) = c[1]
         /\ content # "dtb" =>
              /\ Old(c[1]) => Chosen(c).dtbs = before
              /\ (~c[1].sum /\ Old(c[2])) => Chosen(c).dtbs = before
              /\ c[1].sum => Chosen(c) = c[1]
BY DEF Chosen, Old

(* When a run ends otherwise than well, what matters is what it leaves on  *)
(* the target.                                                             *)
LEMMA AtRest ==
  ASSUME IInv, UNCHANGED table, TypedTarget', pc' = "idle", script' = <<>>,
         cause' \in {"refused", "io", "killed", "power"},
         (intact' /\ ~outage' /\ content' # "dtb") => view' = before' \/ New(copies[1])'
  PROVE  IInv'
<1>1. Typed' BY DEF IInv, Typed, TypedRun
<1>2. HasRead' BY DEF HasRead
<1>3. Scripted' /\ DtbThenTable' /\ TableThenDtb' BY DEF Scripted, DtbThenTable, TableThenDtb, running
<1>4. Copied' BY DEF Copied
<1>5. Survives' BY DEF Survives
<1>6. Fresh' /\ Delivered' BY DEF Fresh, Delivered, Success
<1> QED BY <1>1, <1>2, <1>3, <1>4, <1>5, <1>6 DEF IInv

(* The copies are as they were.                                            *)
LEMMA FreshStays ==
  ASSUME IInv, pc \in {"decide", "run"}, UNCHANGED <<content, copies, stable, begun>> PROVE Fresh'
<1>1. view' = view BY DEF view, Chosen
<1>2. Sealed => Sealed' BY <1>1 DEF Sealed, Copy
<1> QED BY <1>2 DEF IInv, Fresh

(* Whatever a run had done, a reader finds what it began with or all of    *)
(* what it wrote.                                                          *)
LEMMA SafeAnywhere ==
  ASSUME IInv, intact, ~outage, content # "dtb"
  PROVE  view = before \/ New(copies[1])
<1>1. pc \in {"idle", "decide", "run", "first", "second", "sync"} BY DEF IInv, Typed, TypedRun
<1>2. Old(copies[1]) => view = before BY Seen DEF view
<1> QED BY <1>1, <1>2 DEF IInv, Survives

(* The invariant holds of every target to start from.                      *)
LEMMA Began == Init => IInv
<1> SUFFICES ASSUME Init PROVE IInv OBVIOUS
<1>1. PICK t \in Targets : content = t.content /\ copies = t.copies /\ ept = t.ept BY DEF Init
<1>2. content \in {"disk", "reserved", "dtb"} BY <1>1, TargetsAssumption
<1>3. copies \in [Hands -> [sum : BOOLEAN, dtbs : Seq(Dtb)]]
  BY <1>1, TargetsAssumption DEF Hands
<1>4. \A k \in Hands : \A j \in DOMAIN copies[k].dtbs :
        copies[k].dtbs[j].has \/ copies[k].dtbs[j].parts = <<>>
  BY <1>1, <1>3, TargetsAssumption
<1>5. \A k \in Hands : IsCopy(copies[k])
  <2> SUFFICES ASSUME NEW k \in Hands PROVE IsCopy(copies[k]) OBVIOUS
  <2>1. copies[k] \in [sum : BOOLEAN, dtbs : Seq(Dtb)] BY <1>3
  <2> DEFINE c == copies[k]
  <2>2. c = [sum |-> c.sum, dtbs |-> c.dtbs] /\ c.sum \in BOOLEAN /\ c.dtbs \in Seq(Dtb) BY <2>1
  <2>3. \A j \in DOMAIN c.dtbs : c.dtbs[j].has \/ c.dtbs[j].parts = <<>> BY <1>4
  <2> HIDE DEF c
  <2>4. \A j \in DOMAIN c.dtbs : c.dtbs[j] \in Dtb BY <2>2
  <2>5. \A j \in DOMAIN c.dtbs : IsNode(c.dtbs[j]) BY <2>3, <2>4 DEF IsNode, Dtb
  <2>6. IsList(c.dtbs) BY <2>2 DEF IsList
  <2> QED BY <2>2, <2>5, <2>6 DEF IsCopy, c
<1>6. copies = [k \in Hands |-> copies[k]] BY <1>3
<1>7. IsTable(ept) /\ Len(ept.parts) \in 0 .. MaxParts
  <2>1. ept \in EptTables /\ Len(ept.parts) <= MaxParts BY <1>1, TargetsAssumption
  <2>2. IsTable(ept) /\ ept.parts \in Seq(Partition) BY <2>1 DEF IsTable, EptTables
  <2>3. Len(ept.parts) \in Nat BY <2>2
  <2> QED BY <2>1, <2>2, <2>3, TableAssumption
<1>8. TypedTarget BY <1>2, <1>5, <1>6, <1>7 DEF TypedTarget, Init
<1>9. Typed BY <1>7, <1>8 DEF Typed, TypedRun, Init
<1>10. HasRead /\ Scripted /\ DtbThenTable /\ TableThenDtb
  BY DEF Init, HasRead, Scripted, DtbThenTable, TableThenDtb, running
<1>11. Copied /\ Fresh /\ Survives BY DEF Init, Copied, Fresh, Survives
<1>12. Delivered BY DEF Init, Delivered, Success
<1> QED BY <1>9, <1>10, <1>11, <1>12 DEF IInv

(* A list that is not empty has a first element.                           *)
LEMMA NoneListed == ASSUME NEW s, IsList(s), s # <<>> PROVE 1 \in DOMAIN s
<1>1. CASE Len(s) = 0
  <2>1. DOMAIN s = {} BY <1>1 DEF IsList
  <2>2. s = <<>> BY <2>1 DEF IsList
  <2> QED BY <2>2
<1>2. CASE Len(s) # 0 BY <1>2 DEF IsList
<1> QED BY <1>1, <1>2

(* What a reader finds is a list of DTBs.                                  *)
LEMMA ViewIsList == ASSUME Typed PROVE IsList(view) /\ \A k \in DOMAIN view : IsNode(view[k])
<1>1. \A k \in Hands : IsCopy(copies[k]) BY DEF Typed, TypedTarget
<1>2. \E k \in Hands : Chosen(copies) = copies[k]
  <2>1. 1 \in Hands BY DEF Hands
  <2>2. content # "dtb" => 2 \in Hands BY DEF Hands
  <2> QED BY <2>1, <2>2 DEF Chosen
<1>3. IsCopy(Chosen(copies)) BY <1>1, <1>2
<1> QED BY <1>3 DEF IsCopy, view

(* A run reads the target.                                                 *)
LEMMA StartKeeps == ASSUME IInv, NEW r \in Requests, Start(r) PROVE IInv'
<1>1. pc = "idle" /\ pc' = "decide" /\ cause' = "none" /\ script' = script /\ before' = view
      /\ request' = r /\ outage' = FALSE /\ begun' = copies
  BY DEF Start
<1>2. content' = content /\ copies' = copies /\ stable' = stable /\ ept' = ept
  BY DEF Start, target
<1>3. Read(bhelper', table') /\ table' \in {ept} \union GarbageTables BY DEF Start
<1>4. Typed BY DEF IInv
<1>5. Hands' = Hands BY <1>2 DEF Hands
<1>6. TypedTarget' BY <1>2, <1>4, <1>5 DEF Typed, TypedTarget
<1>7. IsTable(table')
  <2>1. \A t \in EptTables : IsTable(t) BY DEF EptTables, IsTable
  <2> QED BY <1>3, <1>4, <2>1, MemoryAssumption DEF Typed, TypedTarget
<1>8. Typed' BY <1>1, <1>4, <1>6, <1>7 DEF Typed, TypedRun
<1>9. view' = view BY <1>2 DEF view, Chosen
<1>10. bhelper' = view \/ Unfilled(bhelper', view) BY <1>3 DEF Read, Unfilled
<1>11. HasRead'
  <2>1. IsList(view) BY <1>4, ViewIsList
  <2>2. content # "dtb" => table' = ept BY <1>3 DEF Read
  <2>3. bhelper' = before' \/ Unfilled(bhelper', before')  BY <1>1, <1>10
  <2>4. IsList(before') BY <1>1, <2>1
  <2>5. view' = before' BY <1>1, <1>9
  <2> QED BY <1>1, <1>2, <2>2, <2>3, <2>4, <2>5 DEF HasRead
<1>12. Scripted' /\ DtbThenTable' /\ TableThenDtb' /\ Copied'
  BY <1>1 DEF Scripted, DtbThenTable, TableThenDtb, running, Copied
<1>13. Survives'
  <2>1. content # "dtb" => DOMAIN copies = 1 .. 2 BY <1>4 DEF Typed, TypedTarget, Hands
  <2>2. (content # "dtb" /\ intact') =>
          copies[1].sum /\ copies[1].dtbs = view /\ copies[2].sum /\ copies[2].dtbs = view
    <3>1. intact' => \A k \in DOMAIN copies : copies[k].sum /\ copies[k].dtbs = view
      BY <1>1 DEF intact
    <3> HIDE <1>1
    <3> SUFFICES ASSUME content # "dtb", intact' PROVE
            copies[1].sum /\ copies[1].dtbs = view /\ copies[2].sum /\ copies[2].dtbs = view
      OBVIOUS
    <3>2. 1 \in DOMAIN copies /\ 2 \in DOMAIN copies BY <2>1
    <3> QED BY <3>1, <3>2
  <2> QED BY <1>1, <1>2, <2>2 DEF Survives, Old
<1>14. Fresh' /\ Delivered' BY <1>1, <1>2 DEF Fresh, Delivered, Success
<1> QED BY <1>8, <1>11, <1>12, <1>13, <1>14 DEF IInv

(* What is not written because it is there is there.                       *)
LEMMA ReflectedThere ==
  ASSUME Typed, HasRead, pc # "idle", view = before, Uniform(before), NEW parts, Reflects(parts)
  PROVE  \A k \in DOMAIN before : Derived(before[k], parts)
<1> SUFFICES ASSUME NEW k \in DOMAIN before PROVE Derived(before[k], parts) OBVIOUS
<1> DEFINE list == ToDParts(parts, capacity).dparts
<1>1. 1 \in DOMAIN before /\ before[1] = before[k]
  <2>1. IsList(before) /\ before # <<>> BY DEF HasRead
  <2> QED BY <2>1, NoneListed DEF Uniform
<1>2. bhelper # before => ~before[1].has BY DEF HasRead, Unfilled
<1>3. IsPedantic(parts) => bhelper[1].parts = list BY DEF Reflects, SameDParts
<1>4. ~IsPedantic(parts) => ~bhelper[1].has BY DEF Reflects
<1> QED BY <1>1, <1>2, <1>3, <1>4 DEF Derived

(* A run decides: the script does what is asked for, or the comparisons    *)
(* that save a write found it there. For dclone this takes                 *)
(* MemoryAssumption: the comparison must not be with memory that was never *)
(* written.                                                                *)
LEMMA DecideKeeps == ASSUME IInv, Decide PROVE IInv'
<1>1. pc = "decide" /\ pc' = "run" /\ UNCHANGED <<content, copies, stable, ept, bhelper, table>>
      /\ UNCHANGED <<ret, cause, before, begun, intact, outage>>
  BY DEF Decide, target, memory, history, intact
<1>2. PICK a \in ArgReadings(request.args) :
        request' = [request EXCEPT !.args = a] /\ script' = Script([request EXCEPT !.args = a])
  BY DEF Decide
<1>3. Typed /\ HasRead /\ request \in Requests /\ view = before BY <1>1 DEF IInv, HasRead
<1>4. /\ request \in [mode : {"dtoe", "etod", "dedit", "dclone", "eedit", "eclone", "ecreate"},
                      args : {request.args}, dry_run : BOOLEAN]
  BY <1>3, RequestsAssumption
<1> DEFINE r == [request EXCEPT !.args = a]
<1>5. r.mode = request.mode /\ r.args = a /\ r.dry_run = request.dry_run BY <1>4
<1>6. request' = r /\ script' = Script(r) BY <1>2
<1> HIDE DEF r
<1>7. r.mode \in {"dtoe", "etod", "dedit", "dclone", "eedit", "eclone", "ecreate"} BY <1>4, <1>5
<1>8. IsTable(table) BY <1>3 DEF Typed, TypedRun
<1> DEFINE s == Script(r)
<1>9. /\ IsScript(s)
      /\ (r.mode \in {"dclone", "eclone"} /\ r.args = <<>>) => s = <<>>
      /\ (r.mode = "dclone" /\ r.args # <<>>) =>
           /\ Forward(s, DcloneParsed(r.args).parts)
           /\ Left(s, "refuse") \/ DcloneParsed(r.args).ok
      /\ r.mode = "dedit" => Forward(s, DeditParsed(bhelper[1].parts, r.args).parts)
      /\ r.mode = "dtoe" => Forward(s, bhelper[1].parts)
      /\ r.mode = "etod" => Backward(s, table.parts)
      /\ (r.mode = "eclone" /\ r.args # <<>>) =>
           Backward(s, EcloneParsed(r.args, capacity).parts)
      /\ r.mode = "eedit" => Backward(s, EeditParsed(table.parts, capacity, r.args).parts)
      /\ r.mode = "ecreate" => Backward(s, EcreateParsed(table.parts, capacity, r.args).parts)
  BY <1>7, <1>8, ScriptFits
<1> HIDE DEF s
<1>10. Typed'
  <2>1. Hands' = Hands BY <1>1 DEF Hands
  <2>2. TypedTarget' BY <1>1, <1>3, <2>1 DEF Typed, TypedTarget
  <2>3. TypedRun' BY <1>1, <1>3 DEF Typed, TypedRun
  <2> QED BY <2>2, <2>3 DEF Typed
<1>11. HasRead' BY <1>1, <1>3 DEF HasRead
<1>12. Scripted' BY <1>1, <1>6, <1>9 DEF Scripted, s
<1>13. Copied' /\ Delivered' BY <1>1, <1>3 DEF Copied, Delivered, Success, Typed, TypedRun
<1>14. Survives' BY <1>1 DEF IInv, Survives, Old
<1>15. capacity' = capacity /\ view' = view BY <1>1 DEF capacity, view, Chosen
<1>16. DtbThenTable'
  <2> SUFFICES ASSUME Follows' PROVE
        /\ DtbLeads(script, WantedDParts)'
        /\ (~Left(script', "refuse") /\ ~request'.dry_run) =>
             /\ ~Left(script', "dtb") => Holds(WantedDParts)'
             /\ ~Left(script', "ept") =>
                  \/ content' = "dtb"
                  \/ ept'.parts = FromDParts(WantedDParts, capacity)'.parts
    BY DEF DtbThenTable
  <2> DEFINE list == WantedDParts'
  <2>1. /\ Uniform(before)
        /\ \/ r.mode = "dclone" /\ r.args # <<>>
           \/ r.mode \in {"dtoe", "dedit"} /\ before[1].has
    BY <1>1, <1>6 DEF Follows, Uniform
  <2>2. list = CASE r.mode = "dtoe" -> before[1].parts
                 [] r.mode = "dclone" -> DcloneParsed(r.args).parts
                 [] r.mode = "dedit" -> DeditParsed(before[1].parts, r.args).parts
    BY <1>1, <1>6 DEF WantedDParts
  <2>3. before[1].has => bhelper = before BY <1>1, <1>3 DEF HasRead, Unfilled
  <2> HIDE DEF list
  <2>4. Forward(s, list) BY <1>9, <2>1, <2>2, <2>3
  <2>5. DtbLeads(script, WantedDParts)' BY <1>6, <1>15, <2>4 DEF Forward, DtbLeads, s, list
  <2>6. ASSUME ~Left(s, "refuse"), ~Left(s, "dtb") PROVE \A k \in DOMAIN view' : view'[k] = Node(list)
    <3>1. bhelper # <<>> /\ bhelper[1].parts = list BY <2>4, <2>6 DEF Forward, SameDParts
    <3>2. bhelper = before /\ before[1].has
      <4>1. CASE r.mode \in {"dtoe", "dedit"} BY <2>1, <2>3, <4>1
      <4>2. CASE r.mode = "dclone" /\ r.args # <<>>
        <5>1. DcloneParsed(r.args).ok /\ list = DcloneParsed(r.args).parts BY <1>9, <2>2, <2>6, <4>2
        <5>2. list \notin GarbageDParts BY <1>3, <1>5, <4>2, <5>1, MemoryAssumption
        <5>3. list # <<>> BY <5>2, ModesAssumption
        <5>4. bhelper = before
          <6>1. ~Unfilled(bhelper, before) BY <3>1, <5>2 DEF Unfilled
          <6> QED BY <1>1, <1>3, <6>1 DEF HasRead
        <5>5. IsNode(before[1])
          <6>1. IsList(before) /\ before # <<>> BY <1>3, <3>1, <5>4, ViewIsList
          <6>2. 1 \in DOMAIN before BY <6>1, NoneListed
          <6> QED BY <1>3, <6>2, ViewIsList
        <5> QED BY <3>1, <5>3, <5>4, <5>5 DEF IsNode
      <4> QED BY <2>1, <4>1, <4>2
    <3>3. IsList(before) /\ \A k \in DOMAIN before : IsNode(before[k]) BY <1>3, ViewIsList
    <3>4. 1 \in DOMAIN before BY <3>1, <3>2, <3>3, NoneListed
    <3>5. before[1] = Node(list)
      <4>1. IsNode(before[1]) /\ before[1].parts = list BY <3>1, <3>2, <3>3, <3>4
      <4> QED BY <3>2, <4>1 DEF IsNode, Node
    <3>6. \A k \in DOMAIN before : before[k] = Node(list) BY <2>1, <3>4, <3>5 DEF Uniform
    <3> QED BY <1>3, <1>15, <3>6 DEF Holds
  <2>7. ASSUME ~Left(s, "refuse"), ~Left(s, "ept")
        PROVE  content' = "dtb" \/ ept'.parts = FromDParts(list, capacity').parts
    BY <1>1, <1>3, <1>15, <2>4, <2>7 DEF Forward, HasRead
  <2> QED BY <1>6, <2>5, <2>6, <2>7 DEF Holds, Left, s, list
<1>17. TableThenDtb'
  <2> SUFFICES ASSUME Precedes' PROVE
        /\ EptLeads(script, WantedParts)'
        /\ (~Left(script', "refuse") /\ ~request'.dry_run /\ content' # "dtb") =>
             /\ ~Left(script', "ept") => ept'.parts = WantedParts'
             /\ (~Left(script', "dtb") /\ Uniform(before)') =>
                  (\A k \in DOMAIN view : Derived(view[k], WantedParts))'
    BY DEF TableThenDtb
  <2> DEFINE parts == WantedParts'
  <2>1. \/ r.mode \in {"etod", "eedit", "ecreate"}
        \/ r.mode = "eclone" /\ r.args # <<>>
    BY <1>6 DEF Precedes
  <2>2. parts = CASE r.mode = "etod" -> table.parts
                  [] r.mode = "eclone" -> EcloneParsed(r.args, capacity).parts
                  [] r.mode = "eedit" -> EeditParsed(table.parts, capacity, r.args).parts
                  [] r.mode = "ecreate" -> EcreateParsed(table.parts, capacity, r.args).parts
    BY <1>1, <1>6, <1>15 DEF WantedParts
  <2> HIDE DEF parts
  <2>3. Backward(s, parts) BY <1>9, <2>1, <2>2
  <2>4. EptLeads(script, WantedParts)'
    BY <1>1, <1>6, <1>15, <2>3 DEF Backward, EptLeads, Derived, Left, s, parts
  <2>5. (~Left(s, "refuse") /\ ~Left(s, "ept") /\ content # "dtb") => ept'.parts = parts
    BY <1>1, <1>3, <2>3 DEF Backward, HasRead
  <2>6. ASSUME ~Left(s, "refuse"), ~Left(s, "dtb"), Uniform(before)
        PROVE  (\A k \in DOMAIN view : Derived(view[k], WantedParts))'
    <3>1. \A k \in DOMAIN before : Derived(before[k], parts)
      BY <1>1, <1>3, <2>3, <2>6, ReflectedThere DEF Backward
    <3> QED BY <1>1, <1>3, <1>15, <3>1 DEF Derived, parts
  <2> QED BY <1>1, <1>6, <2>4, <2>5, <2>6 DEF s, parts, Uniform
<1>18. Fresh' BY <1>1, FreshStays
<1> QED BY <1>10, <1>11, <1>12, <1>13, <1>14, <1>16, <1>17, <1>18 DEF IInv

(* A reader is left with a right checksum if there was one.                *)
LEMMA Whole ==
  ASSUME Typed, copies = begun \/ Sealed, \E k \in DOMAIN begun : begun[k].sum
  PROVE  Chosen(copies).sum
<1>1. DOMAIN copies = Hands BY DEF Typed, TypedTarget
<1>2. 1 \in Hands /\ (content # "dtb" => 2 \in Hands) BY DEF Hands
<1>3. CASE copies = begun
  <2>1. PICK k \in Hands : copies[k].sum BY <1>1, <1>3
  <2>2. k = 1 \/ (k = 2 /\ content # "dtb") BY <2>1 DEF Hands
  <2> QED BY <2>1, <2>2 DEF Chosen
<1>4. CASE Sealed
  <2>1. \A k \in Hands : copies[k].sum BY <1>1, <1>4 DEF Sealed, Copy
  <2> QED BY <1>2, <2>1 DEF Chosen
<1> QED BY <1>3, <1>4

(* A run that has done all of its script has delivered.                    *)
LEMMA ExitKeeps == ASSUME IInv, Exit PROVE IInv'
<1>1. pc = "run" /\ script = <<>> /\ pc' = "idle" /\ ret' = 0 /\ cause' = "ok" /\ script' = <<>>
      /\ UNCHANGED <<content, copies, stable, ept, request, bhelper, table>>
      /\ UNCHANGED <<before, begun, intact, outage>>
  BY DEF Exit, Ends, target, memory, history, intact
<1>2. Typed'
  <2>1. Hands' = Hands BY <1>1 DEF Hands
  <2>2. TypedTarget' BY <1>1, <2>1 DEF IInv, Typed, TypedTarget
  <2> QED BY <1>1, <2>2 DEF IInv, Typed, TypedRun
<1>3. HasRead' /\ Scripted' /\ DtbThenTable' /\ TableThenDtb' /\ Copied'
  BY <1>1 DEF HasRead, Scripted, DtbThenTable, TableThenDtb, running, Copied
<1>4. view' = view /\ capacity' = capacity BY <1>1 DEF view, Chosen, capacity
<1>5. Survives'
  <2>1. (intact /\ ~outage /\ content # "dtb") => view = before \/ New(copies[1])
    BY SafeAnywhere
  <2> QED BY <1>1, <1>4, <2>1 DEF Survives, New, Uniform
<1>6. \A what : ~Left(script, what) BY <1>1 DEF Left
<1>7. Delivered'
  <2> SUFFICES ASSUME ~request.dry_run, Uniform(before)
               PROVE  /\ copies = begun \/ Sealed
                      /\ (\E k \in DOMAIN begun : begun[k].sum) => Chosen(copies).sum
                      /\ (FromTheDtb /\ (request.mode = "dclone" \/ before[1].has)) =>
                           /\ Holds(WantedDParts)
                           /\ content # "dtb" =>
                                ept.parts = FromDParts(WantedDParts, capacity).parts
                      /\ (FromTheEpt /\ content # "dtb") =>
                           /\ ept.parts = WantedParts
                           /\ \A k \in DOMAIN view : Derived(view[k], WantedParts)
    BY <1>1, <1>4 DEF Delivered, Success, FromTheDtb, FromTheEpt, Asked, Holds, Uniform,
         WantedDParts, WantedParts, Derived, Sealed, Copy, Chosen
  <2>1. (FromTheDtb /\ (request.mode = "dclone" \/ before[1].has)) => Follows
    BY DEF FromTheDtb, Asked, Follows
  <2>2. FromTheEpt => Precedes BY DEF FromTheEpt, Asked, Precedes
  <2>3. running BY <1>1 DEF running
  <2>4. copies = begun \/ Sealed BY <1>1 DEF IInv, Fresh
  <2>5. (\E k \in DOMAIN begun : begun[k].sum) => Chosen(copies).sum BY <2>4, Whole DEF IInv
  <2>6. (FromTheDtb /\ (request.mode = "dclone" \/ before[1].has)) =>
           /\ Holds(WantedDParts)
           /\ content # "dtb" => ept.parts = FromDParts(WantedDParts, capacity).parts
    BY <1>6, <2>1, <2>3 DEF IInv, DtbThenTable
  <2>7. (FromTheEpt /\ content # "dtb") =>
           /\ ept.parts = WantedParts
           /\ \A k \in DOMAIN view : Derived(view[k], WantedParts)
    BY <1>6, <2>2, <2>3 DEF IInv, TableThenDtb
  <2> QED BY <2>4, <2>5, <2>6, <2>7
<1>8. Fresh' BY <1>1 DEF Fresh
<1> QED BY <1>2, <1>3, <1>5, <1>7, <1>8 DEF IInv

(* A step that leaves the target as it is leaves a reader as well off.     *)
LEMMA SameTarget ==
  ASSUME IInv, UNCHANGED <<content, copies, stable, ept, before, begun, intact, outage>>
  PROVE  /\ TypedTarget'
         /\ (intact' /\ ~outage' /\ content' # "dtb") => view' = before' \/ New(copies[1])'
<1>1. Hands' = Hands BY DEF Hands
<1>2. TypedTarget' BY <1>1 DEF IInv, Typed, TypedTarget
<1>3. view' = view BY DEF view, Chosen
<1>4. (intact /\ ~outage /\ content # "dtb") => view = before \/ New(copies[1])
  BY SafeAnywhere
<1> QED BY <1>2, <1>3, <1>4 DEF New, Uniform

(* A run ends with a refusal.                                              *)
LEMMA RefusedKeeps == ASSUME IInv, Refused PROVE IInv'
<1>1. pc' = "idle" /\ cause' = "refused" /\ script' = <<>> /\ UNCHANGED table
      /\ UNCHANGED <<content, copies, stable, ept, before, begun, intact, outage>>
  BY DEF Refused, Ends, target, memory, history, intact
<1> QED BY <1>1, AtRest, SameTarget

(* A run is killed between two steps.                                      *)
LEMMA KillKeeps == ASSUME IInv, Kill PROVE IInv'
<1>1. pc' = "idle" /\ cause' = "killed" /\ script' = <<>> /\ UNCHANGED table
      /\ UNCHANGED <<content, copies, stable, ept, before, begun, intact, outage>>
  BY DEF Kill, Ends, target, memory, intact
<1> QED BY <1>1, AtRest, SameTarget

(* A table ampart finds valid is one of the type.                          *)
LEMMA ValidFits ==
  ASSUME NEW new, IsTable(new), ValidTable(new) PROVE Len(new.parts) \in 0 .. MaxParts
BY DEF ValidTable, ValidHeader

(* A function on 1 .. n is a sequence of length n.                         *)
LEMMA Lengths ==
  ASSUME NEW n \in Nat, NEW f, f = [k \in 1 .. n |-> f[k]] PROVE Len(f) = n
<1> DEFINE S == {f[k] : k \in 1 .. n}
<1>1. f \in [1 .. n -> S] OBVIOUS
<1> HIDE DEF S
<1>2. f \in Seq(S) BY <1>1
<1>3. DOMAIN f = 1 .. n /\ DOMAIN f = 1 .. Len(f) /\ Len(f) \in Nat BY <1>1, <1>2
<1> QED BY <1>3

(* The write of the EPT is cut short.                                      *)
LEMMA CutEptKeeps ==
  ASSUME IInv, NEW why \in {"io", "killed"}, CutEpt(why) PROVE IInv'
<1> DEFINE new == Head(script).new
           n == Len(new.parts)
<1>1. /\ pc' = "idle" /\ cause' = why /\ script' = <<>> /\ UNCHANGED table
      /\ UNCHANGED <<content, copies, stable, before, begun, intact, outage>>
      /\ Doing("ept") /\ ValidTable(new)
      /\ ept' \in {ept} \union TornTables(ept, new)
  BY DEF CutEpt, Ends, memory, intact
<1>2. IsTable(new)
  <2>1. running /\ script # <<>> /\ Head(script).do = "ept" BY <1>1 DEF Doing, running
  <2>2. IsItem(Head(script)) BY <2>1, Popped DEF IInv, Scripted
  <2> QED BY <2>1, <2>2 DEF IsItem
<1>3. n \in 0 .. MaxParts BY <1>1, <1>2, ValidFits
<1>4. IsTable(ept') /\ Len(ept'.parts) \in 0 .. MaxParts
  <2>1. CASE ept' = ept BY <2>1 DEF IInv, Typed, TypedTarget
  <2>2. CASE ept' \in TornTables(ept, new)
    <3> HIDE DEF new
    <3>1. PICK m \in 0 .. Len(new.parts) - 1 :
            ept' = [new EXCEPT !.parts = [k \in 1 .. Len(new.parts) |->
                      CASE k <= m -> new.parts[k]
                        [] k > m /\ k <= Len(ept.parts) -> ept.parts[k]
                        [] OTHER -> Part("", 0, 0, 0)]]
      BY <2>2 DEF TornTables
    <3> DEFINE blank == Part("", 0, 0, 0)
               torn == [k \in 1 .. Len(new.parts) |->
                      CASE k <= m -> new.parts[k]
                        [] k > m /\ k <= Len(ept.parts) -> ept.parts[k]
                        [] OTHER -> blank]
    <3>2. ept' = [new EXCEPT !.parts = torn] BY <3>1
    <3>3. Len(torn) = Len(new.parts)
      <4> HIDE DEF blank
      <4>1. torn = [k \in 1 .. Len(new.parts) |-> torn[k]] OBVIOUS
      <4> HIDE DEF torn
      <4>2. n \in Nat BY <1>3
      <4>3. torn = [k \in 1 .. n |-> torn[k]] BY <4>1 DEF n
      <4> HIDE DEF n
      <4>4. Len(torn) = n BY <4>2, <4>3, Lengths
      <4> QED BY <4>4 DEF n
    <3> HIDE DEF torn
    <3>4. IsTable(ept') /\ ept'.parts = torn BY <1>2, <3>2 DEF IsTable
    <3> QED BY <1>3, <3>3, <3>4 DEF n
  <2> QED BY <1>1, <2>1, <2>2
<1>5. TypedTarget'
  <2>1. Hands' = Hands BY <1>1 DEF Hands
  <2> QED BY <1>1, <1>4, <2>1 DEF IInv, Typed, TypedTarget
<1>6. (intact' /\ ~outage' /\ content' # "dtb") => view' = before' \/ New(copies[1])'
  <2>1. view' = view BY <1>1 DEF view, Chosen
  <2>2. (intact /\ ~outage /\ content # "dtb") => view = before \/ New(copies[1])
    BY SafeAnywhere
  <2> QED BY <1>1, <2>1, <2>2 DEF New, Uniform
<1> QED BY <1>1, <1>5, <1>6, AtRest

(* The EPT is written, refused, or passed over.                            *)
LEMMA WriteEptKeeps == ASSUME IInv, WriteEpt PROVE IInv'
<1> DEFINE new == Head(script).new
           legal == content = "dtb" \/ ValidTable(new)
<1>1. /\ UNCHANGED <<content, copies, stable, request, bhelper, table, before, begun, intact, outage>>
      /\ Doing("ept")
  BY DEF WriteEpt, memory, history, intact
<1>2. IF ~legal THEN Ends(Head(script).code, "refused") /\ UNCHANGED ept
      ELSE Continues /\ ept' = IF content = "dtb" \/ request.dry_run THEN ept ELSE new
  BY DEF WriteEpt
<1>3. /\ pc = "run" /\ running /\ script # <<>> /\ Head(script).do = "ept"
      /\ IsScript(script) /\ Typed /\ cause = "none"
  BY <1>1 DEF Doing, running, IInv, Scripted, Typed, TypedRun
<1>4. /\ script[1] = Head(script) /\ IsItem(script[1]) /\ IsScript(Tail(script))
      /\ 1 \in DOMAIN script
      /\ \A what : Left(script, what) <=> "ept" = what \/ Left(Tail(script), what)
  BY <1>3, Popped
<1>5. IsTable(new) /\ script[1].do = "ept" /\ script[1].new = new BY <1>3, <1>4 DEF IsItem
<1> HIDE DEF new
<1>6. CASE ~legal
  <2>1. pc' = "idle" /\ cause' = "refused" /\ script' = <<>> /\ ept' = ept
    BY <1>2, <1>6 DEF Ends
  <2> QED BY <1>1, <2>1, AtRest, SameTarget
<1>7. CASE legal
  <2>1. /\ pc' = "run" /\ script' = Tail(script) /\ ret' = ret /\ cause' = cause
        /\ ept' = IF content = "dtb" \/ request.dry_run THEN ept ELSE new
    BY <1>2, <1>7 DEF Continues
  <2>2. Typed'
    <3>1. Hands' = Hands BY <1>1 DEF Hands
    <3>2. IsTable(ept') /\ Len(ept'.parts) \in 0 .. MaxParts
      <4>1. CASE ept' = ept BY <1>3, <4>1 DEF Typed, TypedTarget
      <4>2. CASE content # "dtb" /\ ept' = new BY <1>5, <1>7, <4>2, ValidFits
      <4> QED BY <2>1, <4>1, <4>2
    <3>3. TypedTarget' BY <1>1, <1>3, <3>1, <3>2 DEF Typed, TypedTarget
    <3>4. TypedRun' BY <1>1, <1>3, <2>1 DEF Typed, TypedRun
    <3> QED BY <3>3, <3>4 DEF Typed
  <2>3. HasRead' BY <1>1, <1>3, <2>1 DEF IInv, HasRead
  <2>4. Scripted' BY <1>1, <1>3, <1>4, <2>1 DEF IInv, Scripted
  <2>5. Copied' /\ Delivered' BY <1>3, <2>1 DEF Copied, Delivered, Success
  <2>6. Survives'
    <3>1. Left(script', "dtb") <=> Left(script, "dtb") BY <1>4, <2>1
    <3> QED BY <1>1, <1>3, <2>1, <3>1 DEF IInv, Survives, Old, New, Uniform
  <2>7. view' = view /\ capacity' = capacity BY <1>1 DEF view, Chosen, capacity
  <2>8. DtbThenTable'
    <3> SUFFICES ASSUME Follows' PROVE
          /\ DtbLeads(script, WantedDParts)'
          /\ (~Left(script', "refuse") /\ ~request'.dry_run) =>
               /\ ~Left(script', "dtb") => Holds(WantedDParts)'
               /\ ~Left(script', "ept") =>
                    \/ content' = "dtb"
                    \/ ept'.parts = FromDParts(WantedDParts, capacity)'.parts
      BY DEF DtbThenTable
    <3>1. Follows /\ WantedDParts' = WantedDParts
      BY <1>1 DEF Follows, Uniform, WantedDParts
    <3>2. DtbLeads(script, WantedDParts) BY <1>3, <3>1 DEF IInv, DtbThenTable
    <3>3. Tail(script) = <<>> BY <1>3, <1>5, <3>2, LeadsOn
    <3>4. \A what : ~Left(<<>>, what) BY DEF Left
    <3>5. DtbLeads(script, WantedDParts)' BY <2>1, <3>3 DEF DtbLeads
    <3>6. ~request.dry_run => Holds(WantedDParts)
      BY <1>3, <1>4, <3>1, <3>3, <3>4 DEF IInv, DtbThenTable
    <3>7. new.parts = FromDParts(WantedDParts, capacity).parts BY <1>4, <1>5, <3>2 DEF DtbLeads
    <3> QED BY <1>1, <2>1, <2>7, <3>1, <3>5, <3>6, <3>7 DEF Holds
  <2>9. TableThenDtb'
    <3> SUFFICES ASSUME Precedes' PROVE
          /\ EptLeads(script, WantedParts)'
          /\ (~Left(script', "refuse") /\ ~request'.dry_run /\ content' # "dtb") =>
               /\ ~Left(script', "ept") => ept'.parts = WantedParts'
               /\ (~Left(script', "dtb") /\ Uniform(before)') =>
                    (\A k \in DOMAIN view : Derived(view[k], WantedParts))'
      BY DEF TableThenDtb
    <3>1. Precedes /\ WantedParts' = WantedParts
      BY <1>1, <2>7 DEF Precedes, WantedParts
    <3>2. EptLeads(script, WantedParts) BY <1>3, <3>1 DEF IInv, TableThenDtb
    <3>3. EptLeads(Tail(script), WantedParts) BY <1>3, <3>2, LeadsOn
    <3>4. EptLeads(script, WantedParts)'
      BY <1>1, <2>1, <2>7, <3>1, <3>3 DEF EptLeads, Derived, Left
    <3>5. new.parts = WantedParts BY <1>4, <1>5, <3>2 DEF EptLeads
    <3>6. ASSUME ~Left(script', "refuse"), ~request.dry_run, content # "dtb",
                 ~Left(script', "dtb"), Uniform(before)'
          PROVE  (\A k \in DOMAIN view : Derived(view[k], WantedParts))'
      <4>1. ~Left(script, "refuse") /\ ~Left(script, "dtb") BY <1>4, <2>1, <3>6
      <4>2. Uniform(before) BY <1>1, <3>6 DEF Uniform
      <4>3. \A k \in DOMAIN view : Derived(view[k], WantedParts)
        BY <1>3, <3>1, <3>6, <4>1, <4>2 DEF IInv, TableThenDtb
      <4> QED BY <1>1, <2>7, <3>1, <4>3 DEF Derived
    <3> QED BY <1>1, <2>1, <3>1, <3>4, <3>5, <3>6
  <2>10. Fresh' BY <1>1, <1>3, FreshStays
  <2> QED BY <2>2, <2>3, <2>4, <2>5, <2>6, <2>8, <2>9, <2>10 DEF IInv
<1> QED BY <1>6, <1>7

(* While the DTB is next, it is in the script, and once only.              *)
LEMMA AtDtb ==
  ASSUME IInv, running, script # <<>>, Head(script).do = "dtb"
  PROVE  /\ script[1] = Head(script) /\ IsScript(script) /\ IsScript(Tail(script))
         /\ 1 \in DOMAIN script /\ IsNode(script[1].node) /\ Left(script, "dtb")
         /\ \A what : Left(script, what) <=> "dtb" = what \/ Left(Tail(script), what)
         /\ ~Left(Tail(script), "dtb")
<1>1. IsScript(script) BY DEF IInv, Scripted
<1>2. /\ script[1] = Head(script) /\ IsItem(script[1]) /\ IsScript(Tail(script))
      /\ 1 \in DOMAIN script
      /\ \A what : Left(script, what) <=> script[1].do = what \/ Left(Tail(script), what)
      /\ ~Left(Tail(script), script[1].do)
  BY <1>1, Popped
<1> QED BY <1>1, <1>2 DEF IsItem

(* Whatever is next after the DTB, the order that is left is kept.         *)
LEMMA AfterDtb ==
  ASSUME IInv, running, script # <<>>, Head(script).do = "dtb",
         running', script' = Tail(script),
         UNCHANGED <<content, ept, request, bhelper, table, before>>,
         request.dry_run \/ \A k \in DOMAIN view' : view'[k] = script[1].node
  PROVE  Scripted' /\ DtbThenTable' /\ TableThenDtb'
<1>1. /\ script[1] = Head(script) /\ IsScript(script) /\ IsScript(Tail(script))
      /\ 1 \in DOMAIN script
      /\ \A what : Left(script, what) <=> "dtb" = what \/ Left(Tail(script), what)
      /\ ~Left(Tail(script), "dtb")
  BY AtDtb
<1>2. Scripted' BY <1>1 DEF IInv, Scripted
<1>3. capacity' = capacity BY DEF capacity
<1>4. DtbThenTable'
  <2> SUFFICES ASSUME Follows' PROVE
        /\ DtbLeads(script, WantedDParts)'
        /\ (~Left(script', "refuse") /\ ~request'.dry_run) =>
             /\ Holds(WantedDParts)'
             /\ ~Left(script', "ept") =>
                  \/ content' = "dtb"
                  \/ ept'.parts = FromDParts(WantedDParts, capacity)'.parts
    BY DEF DtbThenTable
  <2>1. Follows /\ WantedDParts' = WantedDParts BY DEF Follows, Uniform, WantedDParts
  <2>2. DtbLeads(script, WantedDParts) BY <2>1 DEF IInv, DtbThenTable
  <2>3. DtbLeads(Tail(script), WantedDParts) BY <1>1, <2>2, LeadsOn
  <2>4. DtbLeads(script, WantedDParts)' BY <1>3, <2>1, <2>3 DEF DtbLeads
  <2>5. script[1].node = Node(WantedDParts) BY <1>1, <2>2 DEF DtbLeads
  <2>6. (~Left(script', "refuse") /\ ~request'.dry_run) => Holds(WantedDParts)'
    BY <2>1, <2>5 DEF Holds
  <2>7. (~Left(script, "refuse") /\ ~request.dry_run /\ ~Left(script, "ept")) =>
          content = "dtb" \/ ept.parts = FromDParts(WantedDParts, capacity).parts
    BY <2>1 DEF IInv, DtbThenTable
  <2> QED BY <1>1, <1>3, <2>1, <2>4, <2>6, <2>7
<1>5. TableThenDtb'
  <2> SUFFICES ASSUME Precedes' PROVE
        /\ EptLeads(script, WantedParts)'
        /\ (~Left(script', "refuse") /\ ~request'.dry_run /\ content' # "dtb") =>
             /\ ~Left(script', "ept") => ept'.parts = WantedParts'
             /\ (\A k \in DOMAIN view : Derived(view[k], WantedParts))'
    BY DEF TableThenDtb
  <2>1. Precedes /\ WantedParts' = WantedParts BY <1>3 DEF Precedes, WantedParts
  <2>2. EptLeads(script, WantedParts) BY <2>1 DEF IInv, TableThenDtb
  <2>3. EptLeads(Tail(script), WantedParts) BY <1>1, <2>2, LeadsOn
  <2>4. EptLeads(script, WantedParts)' BY <1>3, <2>1, <2>3 DEF EptLeads, Derived, Left
  <2>5. (~Left(script, "refuse") /\ ~request.dry_run /\ ~Left(script, "ept")
          /\ content # "dtb") => ept.parts = WantedParts
    BY <2>1 DEF IInv, TableThenDtb
  <2>6. Derived(script[1].node, WantedParts) BY <1>1, <2>2 DEF EptLeads
  <2>7. ~request.dry_run => (\A k \in DOMAIN view : Derived(view[k], WantedParts))'
    BY <1>3, <2>1, <2>6 DEF Derived
  <2> QED BY <1>1, <2>1, <2>4, <2>5, <2>7
<1> QED BY <1>2, <1>4, <1>5

(* The DTB is refused, cannot be composed or opened, is passed over, or is *)
(* opened.                                                                 *)
LEMMA OpenDtbKeeps == ASSUME IInv, OpenDtb PROVE IInv'
<1> DEFINE refused == DtbRefused(Head(script).node)
<1>1. /\ UNCHANGED <<content, stable, ept, request, bhelper, table, before, begun, intact, outage>>
      /\ Doing("dtb")
      /\ \/ Ends(Head(script).code, "refused") /\ UNCHANGED copies
         \/ Ends(Head(script).code, "io") /\ UNCHANGED copies
         \/ request.dry_run /\ Continues /\ UNCHANGED copies
         \/ /\ ~request.dry_run /\ pc' = "first" /\ copies' = Opened
            /\ UNCHANGED <<script, ret, cause>>
  BY DEF OpenDtb, memory, history, intact
<1>2. pc = "run" /\ running /\ script # <<>> /\ Head(script).do = "dtb"
      /\ Typed /\ cause = "none"
  BY <1>1 DEF Doing, running, IInv, Typed, TypedRun
<1>3. script[1] = Head(script) /\ IsScript(script) /\ Left(script, "dtb") BY <1>2, AtDtb
<1>4. (intact /\ ~outage /\ content # "dtb") => Old(copies[1]) /\ Old(copies[2])
  BY <1>2, <1>3 DEF IInv, Survives
<1>5. Hands' = Hands BY <1>1 DEF Hands
<1>6. CASE (Ends(Head(script).code, "refused") \/ Ends(Head(script).code, "io")) /\ UNCHANGED copies
  <2>1. pc' = "idle" /\ cause' \in {"refused", "io"} /\ script' = <<>> BY <1>6 DEF Ends
  <2> QED BY <1>1, <1>6, <2>1, AtRest, SameTarget
<1>7. CASE request.dry_run /\ Continues /\ UNCHANGED copies
  <2>1. pc' = "run" /\ script' = Tail(script) /\ UNCHANGED <<ret, cause, copies>>
    BY <1>7 DEF Continues
  <2>2. running' BY <2>1 DEF running
  <2>3. Scripted' /\ DtbThenTable' /\ TableThenDtb' BY <1>1, <1>2, <1>7, <2>1, <2>2, AfterDtb
  <2>4. TypedTarget' BY <1>1, <1>2, <1>5, <2>1 DEF Typed, TypedTarget
  <2>5. Typed' BY <1>1, <1>2, <2>1, <2>4 DEF Typed, TypedRun
  <2>6. HasRead' BY <1>1, <1>2, <2>1 DEF IInv, HasRead
  <2>7. Copied' /\ Delivered' BY <1>2, <2>1 DEF Copied, Delivered, Success
  <2>8. Survives' BY <1>1, <1>4, <2>1 DEF Survives, Old
  <2>9. Fresh' BY <1>1, <1>2, <2>1, FreshStays
  <2> QED BY <2>3, <2>5, <2>6, <2>7, <2>8, <2>9 DEF IInv
<1>8. CASE /\ ~request.dry_run /\ pc' = "first" /\ copies' = Opened
           /\ UNCHANGED <<script, ret, cause>>
  <2>1. TypedTarget'
    <3>1. CASE content = "dtb"
      <4> DEFINE c == [sum |-> FALSE, dtbs |-> <<>>]
      <4>1. IsCopy(c) BY DEF IsCopy, IsList
      <4>2. copies' = <<c>> BY <1>8, <3>1 DEF Opened
      <4> HIDE DEF c
      <4>3. Hands = {1} BY <3>1 DEF Hands
      <4>4. copies' = [k \in {1} |-> c] BY <4>2
      <4>5. copies' = [k \in Hands |-> copies'[k]] /\ \A k \in Hands : copies'[k] = c
        BY <4>3, <4>4
      <4> QED BY <1>1, <1>2, <1>5, <4>1, <4>5 DEF Typed, TypedTarget
    <3>2. CASE content # "dtb"
      <4>1. copies' = copies BY <1>8, <3>2 DEF Opened
      <4> QED BY <1>1, <1>2, <1>5, <4>1 DEF Typed, TypedTarget
    <3> QED BY <3>1, <3>2
  <2>2. Typed' BY <1>1, <1>2, <1>8, <2>1 DEF Typed, TypedRun
  <2>3. HasRead' BY <1>1, <1>2, <1>8 DEF IInv, HasRead
  <2>4. Scripted' BY <1>1, <1>2, <1>8 DEF IInv, Scripted, running
  <2>5. capacity' = capacity BY <1>1 DEF capacity
  <2>6. DtbThenTable'
    <3>1. WantedDParts' = WantedDParts /\ (Follows' <=> Follows)
      BY <1>1 DEF WantedDParts, Follows, Uniform
    <3> QED BY <1>1, <1>2, <1>3, <1>8, <2>5, <3>1 DEF IInv, DtbThenTable, DtbLeads, Left
  <2>7. TableThenDtb'
    <3>1. WantedParts' = WantedParts /\ (Precedes' <=> Precedes)
      BY <1>1, <2>5 DEF WantedParts, Precedes
    <3> QED BY <1>1, <1>2, <1>3, <1>8, <2>5, <3>1 DEF IInv, TableThenDtb, EptLeads, Derived, Left
  <2>8. Copied' BY <1>1, <1>2, <1>3, <1>8 DEF Copied
  <2>9. Fresh' /\ Delivered' BY <1>2, <1>8 DEF Fresh, Delivered, Success
  <2>10. Survives'
    <3>1. content # "dtb" => copies' = copies BY <1>8 DEF Opened
    <3> QED BY <1>1, <1>4, <1>8, <3>1 DEF Survives, Old
  <2> QED BY <2>2, <2>3, <2>4, <2>6, <2>7, <2>8, <2>9, <2>10 DEF IInv
<1> QED BY <1>1, <1>6, <1>7, <1>8

(* One copy of the DTB is replaced, the other stays.                       *)
OneNew(new, h, c) ==
  /\ new = [k \in Hands |-> new[k]] /\ \A k \in Hands : IsCopy(new[k])
  /\ new[h] = c /\ \A k \in Hands \ {h} : new[k] = copies[k]

LEMMA Replaced ==
  ASSUME Typed, NEW h \in Hands, NEW c, IsCopy(c) PROVE OneNew([copies EXCEPT ![h] = c], h, c)
BY DEF Typed, TypedTarget, OneNew

(* A copy of the DTB is written: the first while the second is still as it *)
(* was, the second once the first is new.                                  *)
LEMMA WriteCopyKeeps == ASSUME IInv, WriteCopy PROVE IInv'
<1> DEFINE node == script[1].node
<1>1. /\ UNCHANGED <<content, stable, ept, request, bhelper, table, script, ret, cause>>
      /\ UNCHANGED <<before, begun, intact, outage>>
      /\ pc \in {"first", "second"}
      /\ copies' = [copies EXCEPT ![hand] = composed]
      /\ pc' = IF hand < Len(copies) THEN "second" ELSE "sync"
  BY DEF WriteCopy, memory, history, intact
<1>2. /\ running /\ Typed /\ HasRead /\ cause = "none" /\ pc # "idle"
      /\ script # <<>> /\ script[1].do = "dtb" /\ ~request.dry_run
      /\ pc = "second" => content # "dtb" /\ copies[1] = composed
      /\ IsScript(script)
  BY <1>1 DEF running, IInv, Scripted, Copied, Typed, TypedRun
<1>3. Head(script) = script[1] /\ IsItem(script[1]) BY <1>2, Popped
<1>4. IsNode(node) BY <1>2, <1>3 DEF IsItem
<1>5. composed = Composed(node) BY <1>3 DEF composed
<1> HIDE DEF node
<1>6. IsCopy(composed) /\ New(composed) BY <1>2, <1>4, <1>5, ComposedFits
<1>7. Left(script, "dtb") BY <1>2, <1>3, AtDtb
<1>8. hand \in Hands
  <2>1. pc = "first" => hand = 1 BY DEF hand
  <2>2. pc = "second" => hand = 2 BY DEF hand
  <2> QED BY <1>1, <1>2, <2>1, <2>2 DEF Hands
<1>9. /\ copies' = [k \in Hands |-> copies'[k]] /\ \A k \in Hands : IsCopy(copies'[k])
      /\ copies'[hand] = composed /\ \A k \in Hands \ {hand} : copies'[k] = copies[k]
  <2>1. OneNew([copies EXCEPT ![hand] = composed], hand, composed) BY <1>2, <1>6, <1>8, Replaced
  <2>2. OneNew(copies', hand, composed) BY <1>1, <2>1
  <2> QED BY <2>2 DEF OneNew
<1>10. Len(copies) = IF content = "dtb" THEN 1 ELSE 2
  BY <1>2, Lengths DEF Typed, TypedTarget, Hands
<1>11. Hands' = Hands BY <1>1 DEF Hands
<1>12. TypedTarget' BY <1>1, <1>2, <1>9, <1>11 DEF Typed, TypedTarget
<1>13. pc' \in {"second", "sync"} BY <1>1
<1>14. Typed' BY <1>1, <1>2, <1>12, <1>13 DEF Typed, TypedRun
<1>15. HasRead' BY <1>1, <1>2, <1>13 DEF HasRead
<1>16. Scripted' BY <1>1, <1>2, <1>13 DEF IInv, Scripted, running
<1>17. capacity' = capacity BY <1>1 DEF capacity
<1>18. DtbThenTable'
  <2>1. WantedDParts' = WantedDParts /\ (Follows' <=> Follows)
    BY <1>1 DEF WantedDParts, Follows, Uniform
  <2> QED BY <1>1, <1>2, <1>7, <1>17, <2>1 DEF IInv, DtbThenTable, DtbLeads, Left
<1>19. TableThenDtb'
  <2>1. WantedParts' = WantedParts /\ (Precedes' <=> Precedes)
    BY <1>1, <1>17 DEF WantedParts, Precedes
  <2> QED BY <1>1, <1>2, <1>7, <1>17, <2>1 DEF IInv, TableThenDtb, EptLeads, Derived, Left
<1>20. composed' = composed BY <1>1 DEF composed, Composed, Copy
<1>21. CASE pc = "first"
  <2>1. hand = 1 BY <1>21 DEF hand
  <2>2. copies'[1] = composed BY <1>9, <2>1
  <2>3. CASE content = "dtb"
    <3>1. pc' = "sync" /\ Hands = {1} BY <1>1, <1>10, <2>1, <2>3 DEF Hands
    <3>2. Copied' BY <1>1, <1>2, <1>11, <1>20, <2>2, <3>1 DEF Copied
    <3>3. Survives' BY <1>1, <2>3 DEF Survives
    <3> QED BY <3>2, <3>3, <1>1, <1>2, <1>14, <1>15, <1>16, <1>18, <1>19 DEF IInv, Fresh, Delivered, Success
  <2>4. CASE content # "dtb"
    <3>1. pc' = "second" /\ Hands = {1, 2} BY <1>1, <1>10, <2>1, <2>4 DEF Hands
    <3>2. Copied' BY <1>1, <1>2, <1>20, <2>2, <2>4, <3>1 DEF Copied
    <3>3. copies'[2] = copies[2] BY <1>9, <2>1, <3>1
    <3>4. (intact /\ ~outage) => Old(copies[2]) BY <1>21, <2>4 DEF IInv, Survives
    <3>5. Survives' BY <1>1, <1>6, <2>2, <3>1, <3>3, <3>4 DEF Survives, Old, New, Uniform
    <3> QED BY <3>2, <3>5, <1>1, <1>2, <1>14, <1>15, <1>16, <1>18, <1>19 DEF IInv, Fresh, Delivered, Success
  <2> QED BY <2>3, <2>4
<1>22. CASE pc = "second"
  <2>1. hand = 2 /\ content # "dtb" BY <1>2, <1>22 DEF hand
  <2>2. pc' = "sync" /\ Hands = {1, 2} BY <1>1, <1>10, <2>1 DEF Hands
  <2>3. copies'[1] = composed /\ copies'[2] = composed BY <1>2, <1>9, <1>22, <2>1, <2>2
  <2>4. Copied' BY <1>1, <1>2, <1>11, <1>20, <2>2, <2>3 DEF Copied
  <2>5. Survives' BY <1>1, <1>6, <2>2, <2>3 DEF Survives, New, Uniform
  <2> QED BY <2>4, <2>5, <1>1, <1>2, <1>14, <1>15, <1>16, <1>18, <1>19 DEF IInv, Fresh, Delivered, Success
<1> QED BY <1>1, <1>21, <1>22

(* The write of a copy is cut short: its checksum then fails and the other *)
(* copy is good.                                                           *)
LEMMA CutCopyKeeps ==
  ASSUME IInv, NEW why \in {"io", "killed"}, CutCopy(why) PROVE IInv'
<1> DEFINE node == script[1].node
<1>1. /\ UNCHANGED <<content, stable, ept, bhelper, table, before, begun, intact, outage>>
      /\ pc \in {"first", "second"}
      /\ pc' = "idle" /\ cause' = why /\ script' = <<>>
      /\ \E c \in {copies[hand]} \union TornCopies(copies[hand], composed) :
           copies' = [copies EXCEPT ![hand] = c]
  BY DEF CutCopy, Ends, memory, intact
<1>2. /\ running /\ Typed /\ HasRead /\ pc # "idle"
      /\ script # <<>> /\ script[1].do = "dtb"
      /\ pc = "second" => content # "dtb"
      /\ IsScript(script)
  BY <1>1 DEF running, IInv, Scripted, Copied, Typed, TypedRun
<1>3. Head(script) = script[1] /\ IsItem(script[1]) BY <1>2, Popped
<1>4. IsNode(node) BY <1>2, <1>3 DEF IsItem
<1>5. composed = Composed(node) BY <1>3 DEF composed
<1> HIDE DEF node
<1>6. IsCopy(composed) BY <1>2, <1>4, <1>5, ComposedFits
<1>7. hand \in Hands /\ (pc = "first" => hand = 1) /\ (pc = "second" => hand = 2)
  <2>1. pc = "first" => hand = 1 BY DEF hand
  <2>2. pc = "second" => hand = 2 BY DEF hand
  <2> QED BY <1>1, <1>2, <2>1, <2>2 DEF Hands
<1>8. PICK c \in {copies[hand]} \union TornCopies(copies[hand], composed) :
        copies' = [copies EXCEPT ![hand] = c]
  BY <1>1
<1>9. IsCopy(c) /\ (c = copies[hand] \/ ~c.sum)
  <2>1. IsCopy(copies[hand]) BY <1>2, <1>7 DEF Typed, TypedTarget
  <2>2. CASE c = copies[hand] BY <2>1, <2>2
  <2>3. CASE c \in TornCopies(copies[hand], composed)
    <3>1. PICK d \in {<<>>, copies[hand].dtbs, composed.dtbs} : c = [sum |-> FALSE, dtbs |-> d]
      BY <2>3 DEF TornCopies
    <3>2. IsList(<<>>) BY DEF IsList
    <3>3. IsList(d) /\ \A k \in DOMAIN d : IsNode(d[k]) BY <1>6, <2>1, <3>1, <3>2 DEF IsCopy
    <3> QED BY <3>1, <3>3 DEF IsCopy
  <2> QED BY <2>2, <2>3
<1>10. /\ copies' = [k \in Hands |-> copies'[k]] /\ \A k \in Hands : IsCopy(copies'[k])
       /\ copies'[hand] = c /\ \A k \in Hands \ {hand} : copies'[k] = copies[k]
  <2>1. Typed /\ hand \in Hands /\ IsCopy(c) BY <1>2, <1>7, <1>9
  <2>2. OneNew([copies EXCEPT ![hand] = c], hand, c) BY <2>1, Replaced
  <2>3. OneNew(copies', hand, c) BY <1>8, <2>2
  <2> QED BY <2>3 DEF OneNew
<1>11. Hands' = Hands BY <1>1 DEF Hands
<1>12. TypedTarget' BY <1>1, <1>2, <1>10, <1>11 DEF Typed, TypedTarget
<1>13. ASSUME intact, ~outage, content # "dtb"
       PROVE  view' = before' \/ New(copies[1])'
  <2>1. Hands = {1, 2} BY <1>13 DEF Hands
  <2>2. view' = Chosen(copies').dtbs BY <1>1 DEF view, Chosen
  <2>3. CASE pc = "first"
    <3>1. copies'[1] = c /\ copies'[2] = copies[2] BY <1>7, <1>10, <2>1, <2>3
    <3>2. Old(copies[1]) /\ Old(copies[2]) BY <1>13, <2>3 DEF IInv, Survives
    <3>3. Old(copies'[1]) \/ ~copies'[1].sum BY <1>7, <1>9, <2>3, <3>1, <3>2
    <3>4. Chosen(copies').dtbs = before BY <1>13, <3>1, <3>2, <3>3, Seen
    <3> QED BY <1>1, <2>2, <3>4
  <2>4. CASE pc = "second"
    <3>1. copies'[1] = copies[1] BY <1>7, <1>10, <2>1, <2>4
    <3>2. New(copies[1]) BY <1>13, <2>4 DEF IInv, Survives
    <3> QED BY <1>1, <3>1, <3>2 DEF New, Uniform
  <2> QED BY <1>1, <2>3, <2>4
<1> QED BY <1>1, <1>12, <1>13, AtRest

(* The copies are synced, or that fails.                                   *)
LEMMA SyncKeeps == ASSUME IInv, SyncDtb PROVE IInv'
<1> DEFINE node == script[1].node
<1>1. /\ UNCHANGED <<content, copies, ept, request, bhelper, table, before, begun, intact, outage>>
      /\ pc = "sync"
      /\ \/ stable' = copies /\ Continues
         \/ UNCHANGED stable /\ Ends(Head(script).code, "io")
  BY DEF SyncDtb, memory, history, intact
<1>2. /\ running /\ Typed /\ HasRead /\ cause = "none" /\ pc # "idle"
      /\ script # <<>> /\ script[1].do = "dtb" /\ IsScript(script)
      /\ \A k \in Hands : copies[k] = composed
  BY <1>1 DEF running, IInv, Scripted, Copied, Typed, TypedRun
<1>3. Head(script) = script[1] /\ IsItem(script[1]) BY <1>2, Popped
<1>4. IsNode(node) BY <1>2, <1>3 DEF IsItem
<1>5. composed = Composed(node) BY <1>3 DEF composed
<1>6. CASE UNCHANGED stable /\ Ends(Head(script).code, "io")
  <2>1. pc' = "idle" /\ cause' = "io" /\ script' = <<>> /\ UNCHANGED stable BY <1>6 DEF Ends
  <2> QED BY <1>1, <2>1, AtRest, SameTarget
<1>7. CASE stable' = copies /\ Continues
  <2>1. pc' = "run" /\ script' = Tail(script) /\ UNCHANGED <<ret, cause>> /\ stable' = copies
    BY <1>7 DEF Continues
  <2>2. running' BY <2>1 DEF running
  <2>3. Chosen(copies) = composed
    <3>1. 1 \in Hands /\ (content # "dtb" => 2 \in Hands) BY DEF Hands
    <3> QED BY <1>2, <3>1 DEF Chosen
  <2>4. view' = composed.dtbs BY <1>1, <2>3 DEF view, Chosen
  <2>5. \A k \in DOMAIN view' : view'[k] = node
    <3> HIDE DEF node
    <3> QED BY <1>2, <1>4, <1>5, <2>4, ComposedFits
  <2>6. Scripted' /\ DtbThenTable' /\ TableThenDtb'
    BY <1>1, <1>2, <1>3, <2>1, <2>2, <2>5, AfterDtb
  <2>7. Hands' = Hands BY <1>1 DEF Hands
  <2>8. TypedTarget' BY <1>1, <1>2, <2>1, <2>7 DEF Typed, TypedTarget
  <2>9. Typed' BY <1>1, <1>2, <2>1, <2>8 DEF Typed, TypedRun
  <2>10. HasRead' BY <1>1, <1>2, <2>1 DEF HasRead
  <2>11. Copied' /\ Delivered' BY <1>2, <2>1 DEF Copied, Delivered, Success
  <2>12. Survives'
    <3>1. ~Left(Tail(script), "dtb") BY <1>2, <1>3, AtDtb
    <3> QED BY <1>1, <2>1, <3>1 DEF IInv, Survives, New, Uniform
  <2>13. Fresh'
    <3>1. copies' = [k \in Hands |-> copies'[k]] BY <1>1, <1>2 DEF Typed, TypedTarget
    <3>2. composed = Copy(composed.dtbs) BY DEF composed, Composed, Copy
    <3>3. \A k \in DOMAIN copies' : copies'[k] = Copy(view)'
      BY <1>1, <1>2, <2>4, <3>1, <3>2 DEF Copy
    <3> QED BY <1>1, <2>1, <3>3 DEF Fresh, Sealed
  <2> QED BY <2>6, <2>9, <2>10, <2>11, <2>12, <2>13 DEF IInv
<1> QED BY <1>1, <1>6, <1>7

(* Power is lost: with both copies synced nothing happens to them,         *)
(* otherwise the outage is on record.                                      *)
LEMMA LosePowerKeeps == ASSUME IInv, LosePower PROVE IInv'
<1> DEFINE After(k) == {copies[k], stable[k]} \union TornCopies(stable[k], copies[k])
<1>1. /\ UNCHANGED <<content, ept, request, bhelper, table, before, begun, intact>>
      /\ pc' = "idle" /\ cause' = "power" /\ script' = <<>>
      /\ copies' \in [DOMAIN copies -> UNION {After(k) : k \in DOMAIN copies}]
      /\ \A k \in DOMAIN copies :
           copies'[k] \in {copies[k], stable[k]} \union
                     (IF copies[k] = stable[k] THEN {} ELSE TornCopies(stable[k], copies[k]))
      /\ stable' = copies'
      /\ outage' = (outage \/ copies # stable)
  BY DEF LosePower, Ends, memory, intact
<1>2. Typed BY DEF IInv
<1>3. DOMAIN copies = Hands BY <1>2 DEF Typed, TypedTarget
<1>4. Hands' = Hands BY <1>1 DEF Hands
<1>5. copies' = [k \in Hands |-> copies'[k]]
  <2> HIDE DEF After
  <2> QED BY <1>1, <1>3
<1>6. \A k \in Hands : IsCopy(copies'[k])
  <2> SUFFICES ASSUME NEW k \in Hands PROVE IsCopy(copies'[k]) OBVIOUS
  <2>1. IsCopy(copies[k]) /\ IsCopy(stable[k]) BY <1>2 DEF Typed, TypedTarget
  <2>2. CASE copies'[k] \in TornCopies(stable[k], copies[k])
    <3>1. PICK d \in {<<>>, stable[k].dtbs, copies[k].dtbs} :
            copies'[k] = [sum |-> FALSE, dtbs |-> d]
      BY <2>2 DEF TornCopies
    <3>2. IsList(<<>>) BY DEF IsList
    <3>3. IsList(d) /\ \A j \in DOMAIN d : IsNode(d[j]) BY <2>1, <3>1, <3>2 DEF IsCopy
    <3> QED BY <3>1, <3>3 DEF IsCopy
  <2> QED BY <1>1, <1>3, <2>1, <2>2
<1>7. TypedTarget' BY <1>1, <1>2, <1>4, <1>5, <1>6 DEF Typed, TypedTarget
<1>8. ASSUME intact', ~outage', content' # "dtb"
      PROVE  view' = before' \/ New(copies[1])'
  <2>1. copies = stable /\ ~outage BY <1>1, <1>8
  <2>2. \A k \in Hands : copies'[k] = copies[k] BY <1>1, <1>3, <2>1
  <2>3. copies' = copies BY <1>2, <1>5, <2>2 DEF Typed, TypedTarget
  <2>4. view' = view BY <1>1, <2>3 DEF view, Chosen
  <2>5. view = before \/ New(copies[1]) BY <1>1, <1>8, <2>1, SafeAnywhere
  <2> QED BY <1>1, <2>3, <2>4, <2>5 DEF New, Uniform
<1> QED BY <1>1, <1>7, <1>8, AtRest

(* The invariant is about what the target, the run and its history hold.   *)
LEMMA StutterKeeps == ASSUME IInv, UNCHANGED vars PROVE IInv'
<1>1. UNCHANGED <<content, copies, stable, ept, request, bhelper, table, script, pc, ret, cause,
                  before, begun, intact, outage>>
  BY DEF vars, target, memory, history, intact
<1>2. Hands' = Hands /\ view' = view /\ capacity' = capacity /\ composed' = composed
  BY <1>1 DEF Hands, view, Chosen, capacity, composed, Composed, Copy
<1>3. Typed' BY <1>1, <1>2 DEF IInv, Typed, TypedTarget, TypedRun
<1>4. HasRead' BY <1>1, <1>2 DEF IInv, HasRead
<1>5. Scripted' BY <1>1 DEF IInv, Scripted, running
<1>6. WantedDParts' = WantedDParts /\ WantedParts' = WantedParts
  BY <1>1, <1>2 DEF WantedDParts, WantedParts
<1>7. DtbThenTable'
  BY <1>1, <1>2, <1>6 DEF IInv, DtbThenTable, running, Follows, Uniform, DtbLeads, Left, Holds
<1>8. TableThenDtb'
  BY <1>1, <1>2, <1>6 DEF IInv, TableThenDtb, running, Precedes, EptLeads, Derived, Left, Uniform
<1>9. Copied' BY <1>1, <1>2 DEF IInv, Copied
<1>10. Survives' BY <1>1, <1>2 DEF IInv, Survives, Old, New, Uniform, Left
<1>11. Sealed' <=> Sealed BY <1>1, <1>2 DEF Sealed, Copy
<1>12. Delivered'
  BY <1>1, <1>2, <1>6, <1>11 DEF IInv, Delivered, Success, FromTheDtb, FromTheEpt, Asked,
     Uniform, Chosen, Derived
<1>13. Fresh' BY <1>1, <1>11 DEF IInv, Fresh
<1> QED BY <1>3, <1>4, <1>5, <1>7, <1>8, <1>9, <1>10, <1>12, <1>13 DEF IInv

(* The invariant holds in every state.                                     *)
LEMMA Invariance == Spec => []IInv
<1>1. ASSUME IInv, [Next]_vars PROVE IInv'
  <2>1. CASE \E r \in Requests : Start(r) BY <1>1, <2>1, StartKeeps
  <2>2. CASE Decide BY <1>1, <2>2, DecideKeeps
  <2>3. CASE Exit BY <1>1, <2>3, ExitKeeps
  <2>4. CASE Refused BY <1>1, <2>4, RefusedKeeps
  <2>5. CASE WriteEpt BY <1>1, <2>5, WriteEptKeeps
  <2>6. CASE CutEpt("io") \/ CutEpt("killed") BY <1>1, <2>6, CutEptKeeps
  <2>7. CASE OpenDtb BY <1>1, <2>7, OpenDtbKeeps
  <2>8. CASE WriteCopy BY <1>1, <2>8, WriteCopyKeeps
  <2>9. CASE CutCopy("io") \/ CutCopy("killed") BY <1>1, <2>9, CutCopyKeeps
  <2>10. CASE SyncDtb BY <1>1, <2>10, SyncKeeps
  <2>11. CASE Kill BY <1>1, <2>11, KillKeeps
  <2>12. CASE LosePower BY <1>1, <2>12, LosePowerKeeps
  <2>13. CASE UNCHANGED vars BY <1>1, <2>13, StutterKeeps
  <2> QED BY <1>1, <2>1, <2>2, <2>3, <2>4, <2>5, <2>6, <2>7, <2>8, <2>9, <2>10, <2>11,
             <2>12, <2>13 DEF Next
<1> QED BY <1>1, Began, PTL DEF Spec

(***************************************************************************)
(* The theorems                                                            *)
(***************************************************************************)
(* The target has one or two copies, the table fits its header, and the    *)
(* script is what the state of the run says.                               *)
THEOREM TypeCorrect == Spec => []TypeOK
<1>1. ASSUME IInv PROVE TypeOK
  <2>1. Typed /\ Len(copies) = (IF content = "dtb" THEN 1 ELSE 2)
        /\ Len(stable) = (IF content = "dtb" THEN 1 ELSE 2) /\ DOMAIN copies = Hands
    BY <1>1, Lengths DEF IInv, Typed, TypedTarget, Hands
  <2>2. \A k \in DOMAIN copies : copies[k].sum \in BOOLEAN /\ stable[k].sum \in BOOLEAN
    BY <2>1 DEF Typed, TypedTarget, IsCopy
  <2>3. script # <<>> => Head(script).do \in {"refuse", "dtb", "ept"}
    <3> SUFFICES ASSUME script # <<>> PROVE Head(script).do \in {"refuse", "dtb", "ept"} OBVIOUS
    <3>1. running BY <2>1 DEF Typed, TypedRun, running
    <3>2. IsItem(Head(script)) BY <1>1, <3>1, Popped DEF IInv, Scripted
    <3> QED BY <3>2 DEF IsItem
  <2>4. pc \in {"first", "second", "sync"} => Head(script).do = "dtb"
    <3> SUFFICES ASSUME pc \in {"first", "second", "sync"} PROVE Head(script).do = "dtb" OBVIOUS
    <3>1. running /\ script # <<>> /\ script[1].do = "dtb" BY <1>1 DEF IInv, Copied, running
    <3> QED BY <1>1, <3>1, Popped DEF IInv, Scripted
  <2>5. Len(ept.parts) <= MaxParts BY <2>1, TableAssumption DEF Typed, TypedTarget
  <2> QED BY <2>1, <2>2, <2>3, <2>4, <2>5 DEF TypeOK, Typed, TypedTarget, TypedRun
<1> QED BY <1>1, Invariance, PTL

(* The two copies make the update of the DTB atomic for a reader: a run    *)
(* begun on two good copies that ends early, at any point and for any      *)
(* reason but an outage, leaves the DTBs of before or those of its request *)
(* (cli_write_dtb).                                                        *)
THEOREM Survival == Spec => []DtbSurvives
<1>1. ASSUME IInv PROVE DtbSurvives
  <2> SUFFICES ASSUME intact, ~outage, content # "dtb", view # before
               PROVE  DOMAIN view = DOMAIN before /\ Uniform(view) /\ copies[1].sum
    BY DEF DtbSurvives
  <2>1. New(copies[1]) BY <1>1, SafeAnywhere
  <2>2. view = copies[1].dtbs BY <2>1, Seen DEF New, view
  <2> QED BY <2>1, <2>2 DEF New
<1> QED BY <1>1, Invariance, PTL

(* A run that returned 0 leaves the list and the table wanted, and the DTB *)
(* that goes with the table, as a reader finds them (the modes of          *)
(* src/cli.c).  The copies of the DTB are sealed, or all as the run found  *)
(* them since it wrote none: torn ones stay torn then (dtb.c:224), but a   *)
(* reader has a right checksum if there was one.                           *)
THEOREM Delivery == Spec => []Delivered
<1>1. IInv => Delivered BY DEF IInv
<1> QED BY <1>1, Invariance, PTL

(* What SourceFirst says of one step.                                      *)
InOrder ==
  /\ (ept' # ept \/ copies' # copies) => (~request.dry_run \/ cause' = "power")
  /\ (ept' # ept /\ Uniform(before)
        /\ (request.mode = "dclone" \/ (request.mode = "dedit" /\ before[1].has))) =>
       \A k \in DOMAIN view : view[k] = Node(WantedDParts)
  /\ (copies' # copies /\ request.mode \in {"eclone", "eedit", "ecreate"}
        /\ content # "dtb" /\ cause' # "power") =>
       ept.parts = WantedParts

(* When dclone or dedit come to the EPT, the DTB is the one asked for.     *)
LEMMA AtEpt ==
  ASSUME IInv, Doing("ept"), ~request.dry_run, Uniform(before),
         request.mode = "dclone" \/ (request.mode = "dedit" /\ before[1].has)
  PROVE  Holds(WantedDParts)
<1>1. /\ running /\ script # <<>> /\ Head(script).do = "ept" /\ IsScript(script)
      /\ (request.mode \in {"dclone", "eclone"} /\ request.args = <<>>) => script = <<>>
  BY DEF Doing, running, IInv, Scripted
<1>2. Follows BY <1>1 DEF Follows
<1>3. DtbLeads(script, WantedDParts) BY <1>1, <1>2 DEF IInv, DtbThenTable
<1>4. /\ script[1].do = "ept"
      /\ \A what : Left(script, what) <=> "ept" = what \/ Left(Tail(script), what)
  BY <1>1, Popped
<1>5. Tail(script) = <<>> BY <1>1, <1>3, <1>4, LeadsOn
<1>6. \A what : ~Left(<<>>, what) BY DEF Left
<1>7. ~Left(script, "refuse") /\ ~Left(script, "dtb") BY <1>4, <1>5, <1>6
<1> QED BY <1>1, <1>2, <1>7 DEF IInv, DtbThenTable

(* When eclone, eedit or ecreate come to the DTB, the EPT is the one asked *)
(* for.                                                                    *)
LEMMA AtCopies ==
  ASSUME IInv, running, script # <<>>, Head(script).do = "dtb", ~request.dry_run,
         content # "dtb", request.mode \in {"eclone", "eedit", "ecreate"}
  PROVE  ept.parts = WantedParts
<1>1. /\ IsScript(script)
      /\ (request.mode \in {"dclone", "eclone"} /\ request.args = <<>>) => script = <<>>
  BY DEF IInv, Scripted
<1>2. Precedes BY <1>1 DEF Precedes
<1>3. EptLeads(script, WantedParts) BY <1>2 DEF IInv, TableThenDtb
<1>4. /\ script[1].do = "dtb"
      /\ \A what : Left(script, what) <=> "dtb" = what \/ Left(Tail(script), what)
  BY <1>1, Popped
<1>5. Tail(script) = <<>> BY <1>1, <1>3, <1>4, LeadsOn
<1>6. \A what : ~Left(<<>>, what) BY DEF Left
<1>7. ~Left(script, "refuse") /\ ~Left(script, "ept") BY <1>4, <1>5, <1>6
<1> QED BY <1>2, <1>7 DEF IInv, TableThenDtb

(* In no step is what a mode derives written before its source, and no     *)
(* step of a dry run writes (src/cli.c).                                   *)
THEOREM SourceThenDerived == Spec => SourceFirst
<1>1. ASSUME IInv, [Next]_vars PROVE [InOrder]_vars
  <2>1. ASSUME ept' = ept, copies' = copies PROVE InOrder BY <2>1 DEF InOrder
  <2>2. CASE \E r \in Requests : Start(r) BY <2>1, <2>2 DEF Start, target
  <2>3. CASE Decide \/ Exit \/ Refused BY <2>1, <2>3 DEF Decide, Exit, Refused, target
  <2>4. CASE SyncDtb \/ Kill BY <2>1, <2>4 DEF SyncDtb, Kill, target
  <2>5. CASE WriteEpt
    <3>1. Doing("ept") /\ copies' = copies /\ (ept' # ept => ~request.dry_run)
      BY <2>5 DEF WriteEpt
    <3> QED BY <1>1, <3>1, AtEpt DEF InOrder, Holds
  <2>6. CASE CutEpt("io") \/ CutEpt("killed")
    <3>1. Doing("ept") /\ copies' = copies /\ ~request.dry_run BY <2>6 DEF CutEpt
    <3> QED BY <1>1, <3>1, AtEpt DEF InOrder, Holds
  <2>7. CASE OpenDtb
    <3>1. Doing("dtb") /\ ept' = ept /\ (copies' # copies => ~request.dry_run /\ copies' = Opened)
      BY <2>7 DEF OpenDtb
    <3>2. running /\ script # <<>> /\ Head(script).do = "dtb" BY <3>1 DEF Doing, running
    <3> QED BY <1>1, <3>1, <3>2, AtCopies DEF InOrder
  <2>8. CASE WriteCopy \/ CutCopy("io") \/ CutCopy("killed")
    <3>1. pc \in {"first", "second"} /\ ept' = ept BY <2>8 DEF WriteCopy, CutCopy
    <3>2. running /\ script # <<>> /\ script[1].do = "dtb" /\ ~request.dry_run
      BY <1>1, <3>1 DEF running, IInv, Copied
    <3>3. Head(script).do = "dtb" BY <1>1, <3>2, Popped DEF IInv, Scripted
    <3> QED BY <1>1, <3>1, <3>2, <3>3, AtCopies DEF InOrder
  <2>9. CASE LosePower
    <3>1. ept' = ept /\ cause' = "power" BY <2>9 DEF LosePower, Ends
    <3> QED BY <3>1 DEF InOrder
  <2>10. CASE UNCHANGED vars BY <2>10
  <2> QED BY <1>1, <2>2, <2>3, <2>4, <2>5, <2>6, <2>7, <2>8, <2>9, <2>10 DEF Next
<1>2. Spec => [][InOrder]_vars BY <1>1, Invariance, PTL DEF Spec
<1> QED BY <1>2 DEF SourceFirst, InOrder

(***************************************************************************)
(* The two conversions, there and back                                     *)
(***************************************************************************)
(* A function on 1 .. n is a list of n.                                    *)
LEMMA FunctionIs ==
  ASSUME NEW n \in Nat, NEW f, f = [k \in 1 .. n |-> f[k]]
  PROVE  /\ IsList(f) /\ Len(f) = n /\ DOMAIN f = 1 .. n
         /\ \A x : Append(f, x) = [k \in 1 .. n + 1 |-> IF k = n + 1 THEN x ELSE f[k]]
<1> DEFINE R == {f[k] : k \in 1 .. n}
<1>1. DOMAIN f = 1 .. n OBVIOUS
<1>2. \A k \in 1 .. n : f[k] \in R OBVIOUS
<1> HIDE DEF R
<1>3. f \in [1 .. n -> R] BY <1>2
<1>4. f \in Seq(R) BY <1>3
<1>5. Len(f) = n BY <1>1, <1>4
<1>6. ASSUME NEW x PROVE Append(f, x) = [k \in 1 .. n + 1 |-> IF k = n + 1 THEN x ELSE f[k]]
  <2>1. f \in Seq(R \union {x}) /\ x \in R \union {x} BY <1>4
  <2> HIDE DEF R
  <2>2. /\ Append(f, x) \in Seq(R \union {x}) /\ Len(Append(f, x)) = n + 1
        /\ \A k \in 1 .. n + 1 : Append(f, x)[k] = IF k = n + 1 THEN x ELSE f[k]
    BY <1>5, <2>1
  <2>3. Append(f, x) = [k \in 1 .. n + 1 |-> Append(f, x)[k]] BY <2>2
  <2> QED BY <2>2, <2>3
<1> QED BY <1>1, <1>4, <1>5, <1>6 DEF IsList

IsPart(p) == p = Part(p.name, p.offset, p.size, p.mask)
Cut(size, offset, limit) == size = Rest \/ Add(offset, size) > limit

(* P is what u-boot lays Q out as, below the f-th partition.               *)
LaysOut(Q, P, limit, f) ==
  /\ \A i \in 1 .. f - 1 :
       /\ IsPart(Q[i]) /\ IsPart(P[i]) /\ P[i].name = Q[i].name /\ P[i].mask = Q[i].mask
       /\ i <= 2 => P[i].size = Q[i].size
       /\ i > 2 => /\ P[i].offset = Add(End(P[i - 1]), GapPartition)
                   /\ ~(P[i].offset > limit)
                   /\ P[i].size = IF Cut(Q[i].size, P[i].offset, limit)
                                    THEN Sub(limit, P[i].offset) ELSE Q[i].size
  /\ P[1].offset = 0 /\ P[2].offset = Add(P[1].size, GapReserved)

(* ept_pedantic_offsets lays it out, unless the f-th would begin behind the*)
(* end of the disk.                                                        *)
LEMMA Layout ==
  ASSUME NEW Q, NEW P, NEW limit, NEW n \in Nat, n >= 4,
         Len(Q) = n, \A i \in 1 .. 4 : Q[i].name = PedanticNames[i],
         NEW f \in 3 .. n + 1, LaysOut(Q, P, limit, f),
         f <= n => Add(End(P[f - 1]), GapPartition) > limit
  PROVE  PedanticOffsets(Q, limit)
           = IF f > n THEN [ok |-> TRUE, parts |-> [i \in 1 .. n |-> P[i]]] ELSE Failed
<1> DEFINE First(i) == [k \in 1 .. i |-> P[k]]
           So(i) == IF i < f THEN [ok |-> TRUE, parts |-> First(i)] ELSE Failed
           Round(past, i) ==
                LET p == Q[i]
                    offset == CASE i = 1 -> 0
                                [] i = 2 -> Add(Q[1].size, GapReserved)
                                [] OTHER -> Add(End(past.parts[i - 1]), GapPartition)
                    cut == i > 2 /\ (p.size = Rest \/ Add(offset, p.size) > limit)
                    placed == [p EXCEPT !.offset = offset,
                                 !.size = IF cut THEN Sub(limit, offset) ELSE @]
                IN IF ~past.ok \/ (i > 2 /\ offset > limit)
                     THEN [ok |-> FALSE, parts |-> <<>>]
                     ELSE [ok |-> TRUE, parts |-> Append(past.parts, placed)]
           Is(g) == g = [i \in 0 .. n |-> IF i = 0 THEN [ok |-> TRUE, parts |-> <<>>]
                                          ELSE Round(g[i - 1], i)]
           laid == CHOOSE g : Is(g)
<1>1. PedanticOffsets(Q, limit) = laid[n] BY DEF PedanticOffsets
<1>2. First(0) = <<>> OBVIOUS
<1>3. ASSUME NEW i \in 1 .. n PROVE Round(So(i - 1), i) = So(i)
  <2> DEFINE past == So(i - 1)
             p == Q[i]
             offset == CASE i = 1 -> 0
                         [] i = 2 -> Add(Q[1].size, GapReserved)
                         [] OTHER -> Add(End(past.parts[i - 1]), GapPartition)
             cut == i > 2 /\ (p.size = Rest \/ Add(offset, p.size) > limit)
             placed == [p EXCEPT !.offset = offset, !.size = IF cut THEN Sub(limit, offset) ELSE @]
  <2>1. Round(past, i) = IF ~past.ok \/ (i > 2 /\ offset > limit)
                           THEN [ok |-> FALSE, parts |-> <<>>]
                           ELSE [ok |-> TRUE, parts |-> Append(past.parts, placed)]
    OBVIOUS
  <2>2. past.ok <=> i - 1 < f BY DEF Failed
  <2>3. CASE i < f
    <3>1. past.ok /\ past.parts = First(i - 1) BY <2>3
    <3>2. offset = P[i].offset
      <4>1. CASE i = 1 BY <4>1 DEF LaysOut
      <4>2. CASE i = 2
        <5>1. P[1].size = Q[1].size BY <4>2 DEF LaysOut
        <5> QED BY <4>2, <5>1 DEF LaysOut
      <4>3. CASE i > 2
        <5>1. First(i - 1)[i - 1] = P[i - 1] BY <4>3
        <5>2. P[i].offset = Add(End(P[i - 1]), GapPartition) BY <2>3, <4>3 DEF LaysOut
        <5> HIDE DEF past, First
        <5> QED BY <3>1, <4>3, <5>1, <5>2
      <4> QED BY <4>1, <4>2, <4>3
    <3> HIDE DEF offset
    <3>3. ~(i > 2 /\ offset > limit) BY <2>3, <3>2 DEF LaysOut
    <3>4. placed = P[i]
      <4>1. IsPart(p) /\ IsPart(P[i]) /\ P[i].name = p.name /\ P[i].mask = p.mask
        BY <2>3 DEF LaysOut
      <4>2. P[i].size = IF cut THEN Sub(limit, offset) ELSE p.size
        BY <2>3, <3>2 DEF LaysOut, Cut
      <4> HIDE DEF cut
      <4> DEFINE size == IF cut THEN Sub(limit, offset) ELSE p.size
      <4>3. placed = [p EXCEPT !.offset = offset, !.size = size]
        <5>1. p = [name |-> p.name, offset |-> p.offset, size |-> p.size, mask |-> p.mask]
          BY <4>1 DEF IsPart, Part
        <5> QED BY <5>1
      <4> HIDE DEF size
      <4>4. placed = Part(p.name, offset, size, p.mask)
        <5> HIDE DEF placed
        <5> QED BY <4>1, <4>3 DEF IsPart, Part
      <4> QED BY <3>2, <4>1, <4>2, <4>4 DEF IsPart, Part, size
    <3> HIDE DEF placed, past, Round
    <3>5. Append(First(i - 1), P[i]) = First(i)
      <4> DEFINE g == First(i - 1)
      <4>1. i - 1 \in Nat /\ g = [k \in 1 .. i - 1 |-> g[k]] /\ i - 1 + 1 = i
            /\ \A k \in 1 .. i - 1 : g[k] = P[k]
        OBVIOUS
      <4> HIDE DEF g
      <4>2. Append(g, P[i]) = [k \in 1 .. i - 1 + 1 |-> IF k = i - 1 + 1 THEN P[i] ELSE g[k]]
        BY <4>1, FunctionIs
      <4>3. Append(g, P[i]) = [k \in 1 .. i |-> IF k = i THEN P[i] ELSE g[k]] BY <4>1, <4>2
      <4>4. \A k \in 1 .. i : (IF k = i THEN P[i] ELSE g[k]) = P[k] BY <4>1
      <4> QED BY <4>3, <4>4 DEF g
    <3>6. Round(past, i) = [ok |-> TRUE, parts |-> Append(First(i - 1), P[i])]
      BY <2>1, <3>1, <3>3, <3>4
    <3> QED BY <2>3, <3>5, <3>6 DEF past
  <2>4. CASE i = f
    <3>1. past.ok /\ past.parts = First(i - 1) BY <2>4
    <3>2. i > 2 /\ offset > limit
      <4>1. First(i - 1)[i - 1] = P[i - 1] BY <2>4
      <4>2. offset = Add(End(P[i - 1]), GapPartition)
        <5> HIDE DEF past, First
        <5> QED BY <2>4, <3>1, <4>1
      <4> HIDE DEF offset
      <4> QED BY <2>4, <4>2
    <3> HIDE DEF offset, placed, past, Round
    <3>3. Round(past, i) = [ok |-> FALSE, parts |-> <<>>] BY <2>1, <3>2
    <3> QED BY <2>4, <3>3 DEF past, Failed
  <2>5. CASE i > f
    <3>1. ~past.ok BY <2>5 DEF Failed
    <3> HIDE DEF offset, placed, past, Round
    <3>2. Round(past, i) = [ok |-> FALSE, parts |-> <<>>] BY <2>1, <3>1
    <3> QED BY <2>5, <3>2 DEF past, Failed
  <2> QED BY <2>3, <2>4, <2>5
<1> HIDE DEF Round
<1>4. So(0) = [ok |-> TRUE, parts |-> <<>>] BY <1>2
<1> HIDE DEF So
<1> DEFINE g == [i \in 0 .. n |-> So(i)]
<1>5. Is(g)
  <2>1. ASSUME NEW i \in 0 .. n
        PROVE  g[i] = IF i = 0 THEN [ok |-> TRUE, parts |-> <<>>] ELSE Round(g[i - 1], i)
    <3>1. i # 0 => i \in 1 .. n /\ g[i - 1] = So(i - 1) OBVIOUS
    <3> QED BY <1>3, <1>4, <3>1
  <2> QED BY <2>1
<1>6. Is(laid)
  <2> HIDE DEF Is, g
  <2> QED BY <1>5
<1> HIDE DEF laid
<1> DEFINE T == {i \in 0 .. n : laid[i] = So(i)}
<1>7. 0 \in T BY <1>4, <1>6
<1>8. ASSUME NEW i \in 1 .. n, i - 1 \in T PROVE i \in T
  <2>0. i \in 0 .. n /\ i # 0 OBVIOUS
  <2>1. laid[i] = Round(laid[i - 1], i) BY <1>6, <2>0
  <2>2. laid[i - 1] = So(i - 1) BY <1>8
  <2> QED BY <1>3, <2>1, <2>2
<1> HIDE DEF T
<1>9. n \in T
  <2>1. \A i \in 0 .. n : i \in T BY <1>7, <1>8, Induction
  <2> QED BY <2>1
<1>10. laid[n] = So(n) BY <1>9 DEF T
<1> QED BY <1>1, <1>10 DEF So

(* The table all others are compared with, where the disk has room for it. *)
LEMMA ReferenceIs ==
  ASSUME NEW limit, PedanticReference(limit).ok
  PROVE  \E R : /\ PedanticReference(limit) = [ok |-> TRUE, parts |-> R]
                /\ R = [i \in 1 .. 4 |-> R[i]] /\ LaysOut(EmptyParts, R, limit, 5)
<1> DEFINE at2 == Add(BootloaderSize, GapReserved)
           at3 == Add(Add(at2, ReservedSize), GapPartition)
           size3 == IF Cut(0, at3, limit) THEN Sub(limit, at3) ELSE 0
           at4 == Add(Add(at3, size3), GapPartition)
           size4 == IF Cut(EnvSize, at4, limit) THEN Sub(limit, at4) ELSE EnvSize
           R == << Part("bootloader", 0, BootloaderSize, 0), Part("reserved", at2, ReservedSize, 0),
                   Part("cache", at3, size3, 0), Part("env", at4, size4, 0) >>
<1>1. /\ Len(EmptyParts) = 4 /\ \A i \in 1 .. 4 : EmptyParts[i].name = PedanticNames[i]
      /\ EmptyParts[1].name = "bootloader" /\ EmptyParts[1].size = BootloaderSize
      /\ EmptyParts[2].name = "reserved" /\ EmptyParts[2].size = ReservedSize
      /\ EmptyParts[3].name = "cache" /\ EmptyParts[3].size = 0
      /\ EmptyParts[4].name = "env" /\ EmptyParts[4].size = EnvSize
      /\ \A i \in 1 .. 4 : IsPart(EmptyParts[i]) /\ EmptyParts[i].mask = 0
  BY DEF EmptyParts, PedanticNames, Part, IsPart
<1>2. /\ R[1].name = "bootloader" /\ R[1].size = BootloaderSize /\ R[1].offset = 0
      /\ R[2].name = "reserved" /\ R[2].size = ReservedSize /\ R[2].offset = at2
      /\ R[3].name = "cache" /\ R[3].size = size3 /\ R[3].offset = at3
      /\ R[4].name = "env" /\ R[4].size = size4 /\ R[4].offset = at4
      /\ \A i \in 1 .. 4 : IsPart(R[i]) /\ R[i].mask = 0
      /\ R = [i \in 1 .. 4 |-> R[i]]
  <2> HIDE DEF at2, at3, size3, at4, size4
  <2> QED BY DEF Part, IsPart
<1> HIDE DEF R
<1>3. /\ R[2].offset = Add(R[1].size, GapReserved)
      /\ R[3].offset = Add(End(R[2]), GapPartition) /\ R[4].offset = Add(End(R[3]), GapPartition)
      /\ R[3].size = IF Cut(EmptyParts[3].size, R[3].offset, limit)
                       THEN Sub(limit, R[3].offset) ELSE EmptyParts[3].size
      /\ R[4].size = IF Cut(EmptyParts[4].size, R[4].offset, limit)
                       THEN Sub(limit, R[4].offset) ELSE EmptyParts[4].size
  BY <1>1, <1>2 DEF End
<1> HIDE DEF at2, at3, size3, at4, size4
<1>4. ASSUME NEW f \in 3 .. 5, f > 3 => ~(R[3].offset > limit), f > 4 => ~(R[4].offset > limit)
      PROVE  LaysOut(EmptyParts, R, limit, f)
  <2>1. ASSUME NEW i \in 1 .. f - 1
        PROVE  /\ IsPart(EmptyParts[i]) /\ IsPart(R[i])
               /\ R[i].name = EmptyParts[i].name /\ R[i].mask = EmptyParts[i].mask
               /\ i <= 2 => R[i].size = EmptyParts[i].size
               /\ i > 2 => /\ R[i].offset = Add(End(R[i - 1]), GapPartition)
                           /\ ~(R[i].offset > limit)
                           /\ R[i].size = IF Cut(EmptyParts[i].size, R[i].offset, limit)
                                            THEN Sub(limit, R[i].offset) ELSE EmptyParts[i].size
    <3>1. i \in 1 .. 4 OBVIOUS
    <3>2. CASE i = 1 \/ i = 2 BY <1>1, <1>2, <3>2
    <3>3. CASE i = 3
      <4>1. f > 3 /\ i - 1 = 2 BY <3>3
      <4> QED BY <1>1, <1>2, <1>3, <1>4, <3>3, <4>1
    <3>4. CASE i = 4
      <4>1. f > 4 /\ i - 1 = 3 BY <3>4
      <4> QED BY <1>1, <1>2, <1>3, <1>4, <3>4, <4>1
    <3> QED BY <3>1, <3>2, <3>3, <3>4
  <2> QED BY <1>2, <1>3, <2>1 DEF LaysOut
<1>5. ASSUME NEW f \in 3 .. 5, f > 3 => ~(R[3].offset > limit), f > 4 => ~(R[4].offset > limit),
             f <= 4 => Add(End(R[f - 1]), GapPartition) > limit
      PROVE  PedanticReference(limit)
               = IF f > 4 THEN [ok |-> TRUE, parts |-> [i \in 1 .. 4 |-> R[i]]] ELSE Failed
  <2>1. LaysOut(EmptyParts, R, limit, f) BY <1>4, <1>5
  <2> DEFINE n == 4
  <2>2. /\ n \in Nat /\ n >= 4 /\ f \in 3 .. n + 1 /\ Len(EmptyParts) = n
        /\ (f <= n => Add(End(R[f - 1]), GapPartition) > limit)
    BY <1>1, <1>5
  <2> HIDE DEF n
  <2>3. PedanticOffsets(EmptyParts, limit)
          = IF f > n THEN [ok |-> TRUE, parts |-> [i \in 1 .. n |-> R[i]]] ELSE Failed
    BY <1>1, <2>1, <2>2, Layout
  <2> QED BY <2>3 DEF PedanticReference, n
<1>6. ~(R[3].offset > limit)
  <2> SUFFICES ASSUME R[3].offset > limit PROVE FALSE OBVIOUS
  <2>1. PedanticReference(limit) = Failed
    <3> DEFINE f == 3
    <3>1. f \in 3 .. 5 /\ ~(f > 3) /\ ~(f > 4) /\ R[f - 1] = R[2] OBVIOUS
    <3> HIDE DEF f
    <3> QED BY <1>3, <1>5, <3>1
  <2> QED BY <2>1 DEF Failed
<1>7. ~(R[4].offset > limit)
  <2> SUFFICES ASSUME R[4].offset > limit PROVE FALSE OBVIOUS
  <2>1. PedanticReference(limit) = Failed
    <3> DEFINE f == 4
    <3>1. f \in 3 .. 5 /\ ~(f > 4) /\ R[f - 1] = R[3] OBVIOUS
    <3> HIDE DEF f
    <3> QED BY <1>3, <1>5, <1>6, <3>1
  <2> QED BY <2>1 DEF Failed
<1>8. PedanticReference(limit) = [ok |-> TRUE, parts |-> R] /\ LaysOut(EmptyParts, R, limit, 5)
  <2> DEFINE f == 5
  <2>1. f \in 3 .. 5 /\ f > 4 /\ ~(f <= 4) OBVIOUS
  <2> HIDE DEF f
  <2>2. PedanticReference(limit) = [ok |-> TRUE, parts |-> [i \in 1 .. 4 |-> R[i]]]
    BY <1>5, <1>6, <1>7, <2>1
  <2>3. LaysOut(EmptyParts, R, limit, f) BY <1>4, <1>6, <1>7, <2>1
  <2> QED BY <1>2, <2>2, <2>3 DEF f
<1> QED BY <1>2, <1>8

(* What ept_table_to_dts_partitions_helper writes of a partition, and of   *)
(* how many of the first i (e and d tell whether it writes the third and   *)
(* the fourth, which it leaves out when they are as the reference has them)*)
Written(p, limit) == DPart(p.name, IF End(p) >= limit THEN Rest ELSE p.size, p.mask)
CountTo(i, e, d) == IF i <= 2 THEN 0 ELSE IF i = 3 THEN e ELSE (e + d) + (i - 4)
NthKept(k, e, d) == IF k <= e THEN 3 ELSE IF k <= e + d THEN 4 ELSE (k - (e + d)) + 4

(* How the places in the table and in the DTB correspond.                  *)
LEMMA Places ==
  ASSUME NEW e \in 0 .. 1, NEW d \in 0 .. 1
  PROVE  /\ \A i \in Nat : CountTo(i, e, d) \in Nat
         /\ CountTo(0, e, d) = 0 /\ CountTo(1, e, d) = 0 /\ CountTo(2, e, d) = 0
         /\ CountTo(3, e, d) = e /\ CountTo(4, e, d) = e + d
         /\ \A i \in Nat : i > 4 => CountTo(i, e, d) = CountTo(i - 1, e, d) + 1
         /\ \A i \in Nat : i > 4 => NthKept(CountTo(i, e, d), e, d) = i
         /\ e = 1 => NthKept(1, e, d) = 3
         /\ d = 1 => NthKept(e + 1, e, d) = 4
         /\ \A n \in Nat : n >= 4 =>
              \A k \in 1 .. CountTo(n, e, d) :
                \/ e = 1 /\ k = 1 /\ NthKept(k, e, d) = 3
                \/ d = 1 /\ k = e + 1 /\ NthKept(k, e, d) = 4
                \/ k > e + d /\ NthKept(k, e, d) = (k - (e + d)) + 4 /\ NthKept(k, e, d) \in 5 .. n
BY DEF CountTo, NthKept

(* A table that begins with the reference's bootloader and reserved        *)
Begins(P, R, limit, n, e, d) ==
  /\ limit # 0 /\ n \in Nat /\ n >= 4 /\ P = [i \in 1 .. n |-> P[i]] /\ P # <<>>
  /\ Len(P) = n
  /\ PedanticReference(limit) = [ok |-> TRUE, parts |-> R]
  /\ P[1] = R[1] /\ P[2] = R[2]
  /\ e \in 0 .. 1 /\ d \in 0 .. 1 /\ (e = 0 <=> P[3] = R[3]) /\ (d = 0 <=> P[4] = R[4])

KeptList(P, limit, i, e, d) ==
  [k \in 1 .. CountTo(i, e, d) |-> Written(P[NthKept(k, e, d)], limit)]

(* What the DTB keeps of such a table.                                     *)
LEMMA KeptIs ==
  ASSUME NEW P, NEW R, NEW limit, NEW n, NEW e, NEW d, Begins(P, R, limit, n, e, d)
  PROVE  ToDParts(P, limit) = [ok |-> TRUE, dparts |-> KeptList(P, limit, n, e, d)]
<1> DEFINE Round(so, i) ==
             IF i <= 4 /\ P[i] = PedanticReference(limit).parts[i] THEN so
             ELSE Append(so, Written(P[i], limit))
           Is(g) == g = [i \in 0 .. Len(P) |-> IF i = 0 THEN <<>> ELSE Round(g[i - 1], i)]
           kept == CHOOSE g : Is(g)
           So(i) == KeptList(P, limit, i, e, d)
<1>0. /\ n \in Nat /\ n >= 4 /\ e \in 0 .. 1 /\ d \in 0 .. 1
      /\ P[1] = R[1] /\ P[2] = R[2] /\ (e = 0 <=> P[3] = R[3]) /\ (d = 0 <=> P[4] = R[4])
  BY DEF Begins
<1>00. PedanticReference(limit).parts = R /\ PedanticReference(limit).ok /\ Len(P) = n BY DEF Begins
<1>1. ToDParts(P, limit) = [ok |-> TRUE, dparts |-> kept[n]]
  <2>1. P # <<>> /\ limit # 0 BY DEF Begins
  <2>2. ToDParts(P, limit)
          = IF P = <<>> \/ limit = 0 \/ ~PedanticReference(limit).ok
              THEN [ok |-> FALSE, dparts |-> <<>>] ELSE [ok |-> TRUE, dparts |-> kept[Len(P)]]
    BY DEF ToDParts, Written
  <2> HIDE DEF kept
  <2>3. ~(P = <<>> \/ limit = 0 \/ ~PedanticReference(limit).ok) BY <1>00, <2>1
  <2>4. ToDParts(P, limit) = [ok |-> TRUE, dparts |-> kept[Len(P)]] BY <2>2, <2>3
  <2>5. Len(P) = n BY <1>00
  <2> QED BY <2>4, <2>5
<1>2. So(0) = <<>>
  <2> DEFINE m == CountTo(0, e, d)
  <2>1. m = 0 BY <1>0, Places
  <2> HIDE DEF m
  <2>2. So(0) = [k \in 1 .. m |-> Written(P[NthKept(k, e, d)], limit)] BY DEF KeptList, m
  <2>3. 1 .. m = {} BY <2>1
  <2> HIDE DEF So
  <2>4. ASSUME NEW F PROVE [k \in 1 .. 0 |-> F[k]] = <<>> OBVIOUS
  <2>5. DOMAIN So(0) = 1 .. 0 /\ So(0) = [k \in 1 .. 0 |-> So(0)[k]] BY <2>1, <2>2
  <2> DEFINE F == So(0)
  <2> HIDE DEF F
  <2>6. F = [k \in 1 .. 0 |-> F[k]] BY <2>5 DEF F
  <2> QED BY <2>4, <2>6 DEF F
<1>3. ASSUME NEW i \in 1 .. n PROVE Round(So(i - 1), i) = So(i)
  <2> DEFINE m == CountTo(i - 1, e, d)
             s == So(i - 1)
             x == Written(P[i], limit)
  <2>1. m \in Nat BY <1>0, Places
  <2>2. s = [k \in 1 .. m |-> s[k]] /\ \A k \in 1 .. m : s[k] = Written(P[NthKept(k, e, d)], limit)
    BY DEF KeptList
  <2>3. CASE i <= 4 /\ P[i] = R[i]
    <3>1. CountTo(i, e, d) = m
      <4>1. i = 1 \/ i = 2 \/ (i = 3 /\ e = 0) \/ (i = 4 /\ d = 0) BY <1>0, <2>3
      <4>2. CASE i = 1 BY <1>0, <4>2, Places
      <4>3. CASE i = 2 BY <1>0, <4>3, Places
      <4>4. CASE i = 3 /\ e = 0 BY <1>0, <4>4, Places
      <4>5. CASE i = 4 /\ d = 0 BY <1>0, <4>5, Places
      <4> QED BY <4>1, <4>2, <4>3, <4>4, <4>5
    <3>2. So(i) = s BY <3>1 DEF KeptList
    <3> HIDE DEF So
    <3> QED BY <1>00, <2>3, <3>2
  <2>4. CASE ~(i <= 4 /\ P[i] = R[i])
    <3>1. CountTo(i, e, d) = m + 1 /\ NthKept(m + 1, e, d) = i
      <4>1. (i = 3 /\ e = 1) \/ (i = 4 /\ d = 1) \/ i > 4 BY <1>0, <2>4
      <4>2. CASE i = 3 /\ e = 1 BY <1>0, <4>2, Places
      <4>3. CASE i = 4 /\ d = 1 BY <1>0, <4>3, Places
      <4>4. CASE i > 4
        <5>1. i \in Nat /\ CountTo(i, e, d) = m + 1 BY <1>0, <4>4, Places
        <5> QED BY <1>0, <4>4, <5>1, Places
      <4> QED BY <4>1, <4>2, <4>3, <4>4
    <3> HIDE DEF m, s
    <3>2. Append(s, x) = [k \in 1 .. m + 1 |-> IF k = m + 1 THEN x ELSE s[k]]
      BY <2>1, <2>2, FunctionIs
    <3>3. \A k \in 1 .. m + 1 :
            (IF k = m + 1 THEN x ELSE s[k]) = Written(P[NthKept(k, e, d)], limit)
      BY <2>1, <2>2, <3>1
    <3>4. Append(s, x) = So(i) BY <3>1, <3>2, <3>3 DEF KeptList
    <3> HIDE DEF So
    <3> QED BY <1>00, <2>4, <3>4 DEF s
  <2> QED BY <2>3, <2>4
<1> HIDE DEF Round, So
<1> DEFINE g == [i \in 0 .. n |-> So(i)]
<1>5. Is(g)
  <2>1. ASSUME NEW i \in 0 .. n
        PROVE  g[i] = IF i = 0 THEN <<>> ELSE Round(g[i - 1], i)
    <3>1. i # 0 => i \in 1 .. n /\ g[i - 1] = So(i - 1) BY <1>0
    <3> QED BY <1>2, <1>3, <3>1
  <2> QED BY <1>00, <2>1
<1>6. Is(kept)
  <2> HIDE DEF Is, g
  <2> QED BY <1>5
<1> HIDE DEF kept
<1> DEFINE T == {i \in 0 .. n : kept[i] = So(i)}
<1>7. 0 \in T BY <1>0, <1>00, <1>2, <1>6
<1>8. ASSUME NEW i \in 1 .. n, i - 1 \in T PROVE i \in T
  <2>0. i \in 0 .. n /\ i # 0 BY <1>0
  <2>1. kept[i] = Round(kept[i - 1], i) BY <1>00, <1>6, <2>0
  <2>2. kept[i - 1] = So(i - 1) BY <1>8
  <2> QED BY <1>3, <2>0, <2>1, <2>2
<1> HIDE DEF T
<1>9. n \in T
  <2>1. \A i \in 0 .. n : i \in T BY <1>0, <1>7, <1>8, Induction
  <2> QED BY <1>0, <2>1
<1>10. kept[n] = So(n) BY <1>9 DEF T
<1> QED BY <1>1, <1>10 DEF So

(* The partitions u-boot has once it has read the first k of the DTB.      *)
Put(j, k, e, d) ==
  /\ j > 2 /\ CountTo(j, e, d) <= k
  /\ (j = 3 => e = 1) /\ (j = 4 => d = 1)
LenTo(k, e, d) == IF k <= e + d THEN 4 ELSE (k - (e + d)) + 4
ReadBack(p, limit) == Part(p.name, 0, IF End(p) >= limit THEN Rest ELSE p.size, p.mask)
Merged(P, limit, k, e, d) ==
  [j \in 1 .. LenTo(k, e, d) |-> IF Put(j, k, e, d) THEN ReadBack(P[j], limit) ELSE EmptyParts[j]]

(* Each that is read takes its place, or is the next.                      *)
LEMMA PutAt ==
  ASSUME NEW e \in 0 .. 1, NEW d \in 0 .. 1, NEW n \in Nat, n >= 4,
         NEW k \in 1 .. CountTo(n, e, d)
  PROVE  LET i == NthKept(k, e, d)
         IN /\ i \in 3 .. n /\ ~Put(i, k - 1, e, d)
            /\ \A j \in 1 .. LenTo(k, e, d) : Put(j, k, e, d) <=> (Put(j, k - 1, e, d) \/ j = i)
            /\ LenTo(k, e, d) \in Nat /\ LenTo(k - 1, e, d) \in 4 .. n
            /\ i <= 4 => LenTo(k, e, d) = LenTo(k - 1, e, d)
            /\ i > 4 => LenTo(k - 1, e, d) = i - 1 /\ LenTo(k, e, d) = i
<1> DEFINE i == NthKept(k, e, d)
<1>1. k \in Nat /\ k >= 1 /\ e + d \in 0 .. 2 /\ k <= (e + d) + (n - 4)
  BY DEF CountTo
<1>2. CASE k <= e
  <2>1. e = 1 /\ k = 1 /\ i = 3 BY <1>1, <1>2 DEF NthKept
  <2> HIDE DEF i
  <2> QED BY <2>1 DEF Put, CountTo, LenTo, i
<1>3. CASE k > e /\ k <= e + d
  <2>1. d = 1 /\ k = e + 1 /\ i = 4 BY <1>1, <1>3 DEF NthKept
  <2> HIDE DEF i
  <2> QED BY <2>1 DEF Put, CountTo, LenTo, i
<1>4. CASE k > e + d
  <2>1. i = (k - (e + d)) + 4 BY <1>1, <1>4 DEF NthKept
  <2> HIDE DEF i
  <2>2. i \in 5 .. n /\ LenTo(k, e, d) = i /\ LenTo(k - 1, e, d) = i - 1
    BY <1>1, <1>4, <2>1 DEF LenTo
  <2>3. ~Put(i, k - 1, e, d) BY <1>1, <1>4, <2>1, <2>2 DEF Put, CountTo
  <2>4. \A j \in 1 .. i : Put(j, k, e, d) <=> (Put(j, k - 1, e, d) \/ j = i)
    BY <1>1, <1>4, <2>1, <2>2 DEF Put, CountTo
  <2> QED BY <2>2, <2>3, <2>4 DEF i
<1> QED BY <1>1, <1>2, <1>3, <1>4

(* What a table must be named like for the DTB to be read back in order.   *)
NamedFor(P, n) ==
  /\ \A j \in 1 .. 4 : P[j].name = PedanticNames[j]
  /\ \A i, j \in 1 .. n : P[i].name = P[j].name => i = j

(* One round of reading the DTB back.                                      *)
LEMMA MergedNext ==
  ASSUME NEW P, NEW limit, NEW n \in Nat, n >= 4, NamedFor(P, n),
         NEW e \in 0 .. 1, NEW d \in 0 .. 1, NEW k \in 1 .. CountTo(n, e, d)
  PROVE  Merge(Merged(P, limit, k - 1, e, d), Written(P[NthKept(k, e, d)], limit))
           = Merged(P, limit, k, e, d)
<1> DEFINE i == NthKept(k, e, d)
           l == LenTo(k - 1, e, d)
           M == Merged(P, limit, k - 1, e, d)
           x == Written(P[i], limit)
<1>1. /\ i \in 3 .. n /\ ~Put(i, k - 1, e, d) /\ l \in 4 .. n
      /\ \A j \in 1 .. LenTo(k, e, d) : Put(j, k, e, d) <=> (Put(j, k - 1, e, d) \/ j = i)
      /\ i <= 4 => LenTo(k, e, d) = l
      /\ i > 4 => l = i - 1 /\ LenTo(k, e, d) = i
  BY PutAt
<1>2. /\ M = [j \in 1 .. l |-> M[j]] /\ l \in Nat
      /\ \A j \in 1 .. l : M[j] = IF Put(j, k - 1, e, d) THEN ReadBack(P[j], limit) ELSE EmptyParts[j]
  BY <1>1 DEF Merged
<1>3. /\ x.name = P[i].name /\ x.mask = P[i].mask
      /\ ReadBack(P[i], limit) = Part(x.name, 0, x.size, x.mask)
  BY DEF Written, DPart, ReadBack
<1>4. \A j \in 1 .. 4 : EmptyParts[j].name = PedanticNames[j] /\ EmptyParts[j].offset = 0
                        /\ IsPart(EmptyParts[j])
  BY DEF EmptyParts, PedanticNames, Part, IsPart
<1> HIDE DEF M, x, l, i
<1>5. \A j \in 1 .. l : M[j].name = P[j].name
  <2> SUFFICES ASSUME NEW j \in 1 .. l PROVE M[j].name = P[j].name OBVIOUS
  <2>1. CASE Put(j, k - 1, e, d) BY <1>2, <2>1 DEF ReadBack, Part
  <2>2. CASE ~Put(j, k - 1, e, d)
    <3>1. j \in 1 .. 4
      <4>1. j <= 4 \/ CountTo(j, e, d) <= k - 1 BY <1>1 DEF LenTo, CountTo, l
      <4> QED BY <1>1, <2>2, <4>1 DEF Put
    <3> QED BY <1>2, <1>4, <2>2, <3>1 DEF NamedFor
  <2> QED BY <2>1, <2>2
<1>6. DOMAIN M = 1 .. l BY <1>2
<1>7. CASE i <= 4
  <2>1. i \in 1 .. l /\ i \in 1 .. 4 /\ i \in 1 .. n BY <1>1, <1>7
  <2>2. Find(M, x.name) = {i}
    <3>1. \A j \in 1 .. l : M[j].name = x.name <=> j = i
      BY <1>1, <1>3, <1>5, <2>1 DEF NamedFor
    <3> QED BY <1>6, <2>1, <3>1 DEF Find
  <2>3. Merge(M, x) = [M EXCEPT ![i].size = x.size, ![i].mask = x.mask]
    <3> DEFINE c == CHOOSE h \in Find(M, x.name) : \A u \in Find(M, x.name) : h <= u
    <3>1. c = i BY <2>1, <2>2
    <3>2. Merge(M, x) = [M EXCEPT ![c].size = x.size, ![c].mask = x.mask]
      BY <2>2 DEF Merge
    <3> HIDE DEF c
    <3> QED BY <3>1, <3>2
  <2>4. M[i] = EmptyParts[i] BY <1>1, <1>2, <2>1
  <2>5. M[i] = Part(x.name, 0, M[i].size, M[i].mask)
    BY <1>3, <1>4, <2>1, <2>4 DEF IsPart, NamedFor
  <2>6. [M EXCEPT ![i].size = x.size, ![i].mask = x.mask]
          = [M EXCEPT ![i] = Part(x.name, 0, x.size, x.mask)]
    <3> DEFINE N == [M EXCEPT ![i].size = x.size]
           v == [M[i] EXCEPT !.size = x.size]
    <3>0. v = Part(x.name, 0, x.size, M[i].mask) BY <2>5 DEF Part
    <3>1. N = [M EXCEPT ![i] = Part(x.name, 0, x.size, M[i].mask)]
      <4>1. N = [M EXCEPT ![i] = v] OBVIOUS
      <4> QED BY <3>0, <4>1
    <3>2. i \in DOMAIN M BY <1>6, <2>1
    <3>3. N[i] = Part(x.name, 0, x.size, M[i].mask) BY <3>1, <3>2
    <3>4. [N EXCEPT ![i].mask = x.mask] = [N EXCEPT ![i] = Part(x.name, 0, x.size, x.mask)]
      <4> DEFINE w == [N[i] EXCEPT !.mask = x.mask]
      <4>1. w = Part(x.name, 0, x.size, x.mask) BY <3>3 DEF Part
      <4>2. [N EXCEPT ![i].mask = x.mask] = [N EXCEPT ![i] = w] OBVIOUS
      <4> QED BY <4>1, <4>2
    <3>5. [N EXCEPT ![i] = Part(x.name, 0, x.size, x.mask)]
            = [M EXCEPT ![i] = Part(x.name, 0, x.size, x.mask)]
      BY <3>1
    <3>6. [M EXCEPT ![i].size = x.size, ![i].mask = x.mask] = [N EXCEPT ![i].mask = x.mask]
      OBVIOUS
    <3> QED BY <3>4, <3>5, <3>6
  <2>7. [M EXCEPT ![i] = Part(x.name, 0, x.size, x.mask)]
          = [j \in 1 .. l |-> IF j = i THEN ReadBack(P[i], limit) ELSE M[j]]
    BY <1>2, <1>3, <1>6, <2>1
  <2>8. LenTo(k, e, d) = l BY <1>1, <1>7
  <2>9. \A j \in 1 .. l : (IF j = i THEN ReadBack(P[i], limit) ELSE M[j])
                            = IF Put(j, k, e, d) THEN ReadBack(P[j], limit) ELSE EmptyParts[j]
    BY <1>1, <1>2, <2>1, <2>8
  <2>10. Merged(P, limit, k, e, d)
           = [j \in 1 .. l |-> IF Put(j, k, e, d) THEN ReadBack(P[j], limit) ELSE EmptyParts[j]]
    BY <2>8 DEF Merged
  <2> QED BY <2>3, <2>6, <2>7, <2>9, <2>10 DEF M, x, i
<1>8. CASE i > 4
  <2>1. l = i - 1 /\ LenTo(k, e, d) = l + 1 /\ i = l + 1 /\ i \in Nat BY <1>1, <1>8
  <2>2. Find(M, x.name) = {}
    <3>1. \A j \in 1 .. l : M[j].name # x.name
      BY <1>1, <1>3, <1>5, <2>1 DEF NamedFor
    <3> QED BY <1>6, <3>1 DEF Find
  <2>3. Merge(M, x) = Append(M, ReadBack(P[i], limit)) BY <1>3, <2>2 DEF Merge
  <2> DEFINE y == ReadBack(P[i], limit)
  <2> HIDE DEF y
  <2>4. Append(M, y) = [j \in 1 .. l + 1 |-> IF j = l + 1 THEN y ELSE M[j]]
    BY <1>2, FunctionIs
  <2>5. \A j \in 1 .. l + 1 : (IF j = l + 1 THEN y ELSE M[j])
                            = IF Put(j, k, e, d) THEN ReadBack(P[j], limit) ELSE EmptyParts[j]
    BY <1>1, <1>2, <2>1 DEF y
  <2>6. Merged(P, limit, k, e, d)
           = [j \in 1 .. l + 1 |-> IF Put(j, k, e, d) THEN ReadBack(P[j], limit) ELSE EmptyParts[j]]
    BY <2>1 DEF Merged
  <2> QED BY <2>3, <2>4, <2>5, <2>6 DEF M, x, i, y
<1> QED BY <1>1, <1>7, <1>8

(* u-boot lays out the partitions the DTB kept, among those of its own.    *)
LEMMA MergedIs ==
  ASSUME NEW P, NEW limit, NEW n \in Nat, n >= 4, n <= MaxParts, NamedFor(P, n),
         NEW e \in 0 .. 1, NEW d \in 0 .. 1
  PROVE  FromDParts(KeptList(P, limit, n, e, d), limit)
           = PedanticOffsets(Merged(P, limit, CountTo(n, e, d), e, d), limit)
<1> DEFINE K == KeptList(P, limit, n, e, d)
           m == CountTo(n, e, d)
           So(k) == Merged(P, limit, k, e, d)
           Round(so, k) == Merge(so, K[k])
           Is(g) == g = [k \in 0 .. Len(K) |-> IF k = 0 THEN EmptyParts ELSE Round(g[k - 1], k)]
           merged == CHOOSE g : Is(g)
<1>1. m \in Nat BY Places
<1>2. Len(K) = m /\ \A k \in 1 .. m : K[k] = Written(P[NthKept(k, e, d)], limit)
  <2>1. K = [k \in 1 .. m |-> K[k]] /\ \A k \in 1 .. m : K[k] = Written(P[NthKept(k, e, d)], limit)
    BY DEF KeptList
  <2> HIDE DEF K, m
  <2> QED BY <1>1, <2>1, FunctionIs
<1>3. FromDParts(K, limit) = IF Len(merged[Len(K)]) > MaxParts THEN [ok |-> FALSE, parts |-> <<>>]
                             ELSE PedanticOffsets(merged[Len(K)], limit)
  BY DEF FromDParts
<1>4. So(0) = EmptyParts
  <2>1. LenTo(0, e, d) = 4 /\ \A j \in 1 .. 4 : ~Put(j, 0, e, d) BY DEF LenTo, Put, CountTo
  <2>2. So(0) = [j \in 1 .. 4 |-> EmptyParts[j]]
    <3>1. So(0) = [j \in 1 .. LenTo(0, e, d) |->
                     IF Put(j, 0, e, d) THEN ReadBack(P[j], limit) ELSE EmptyParts[j]]
      BY DEF Merged
    <3> HIDE DEF So
    <3> QED BY <2>1, <3>1
  <2>3. EmptyParts = [j \in 1 .. 4 |-> EmptyParts[j]] BY DEF EmptyParts
  <2> QED BY <2>2, <2>3
<1>5. ASSUME NEW k \in 1 .. m PROVE Round(So(k - 1), k) = So(k)
  <2>1. Merge(So(k - 1), Written(P[NthKept(k, e, d)], limit)) = So(k) BY MergedNext
  <2> HIDE DEF K, m, So
  <2> QED BY <1>2, <2>1
<1> HIDE DEF K, Round, So, m
<1> DEFINE g == [k \in 0 .. m |-> So(k)]
<1>6. Is(g)
  <2>1. ASSUME NEW k \in 0 .. m
        PROVE  g[k] = IF k = 0 THEN EmptyParts ELSE Round(g[k - 1], k)
    <3>1. k # 0 => k \in 1 .. m /\ g[k - 1] = So(k - 1) BY <1>1
    <3> QED BY <1>4, <1>5, <3>1
  <2> QED BY <1>2, <2>1
<1>7. Is(merged)
  <2> HIDE DEF Is, g
  <2> QED BY <1>6
<1> HIDE DEF merged
<1> DEFINE T == {k \in 0 .. m : merged[k] = So(k)}
<1>8. 0 \in T BY <1>1, <1>2, <1>4, <1>7
<1>9. ASSUME NEW k \in 1 .. m, k - 1 \in T PROVE k \in T
  <2>0. k \in 0 .. m /\ k # 0 BY <1>1
  <2>1. merged[k] = Round(merged[k - 1], k) BY <1>2, <1>7, <2>0
  <2>2. merged[k - 1] = So(k - 1) BY <1>9
  <2> QED BY <1>5, <2>0, <2>1, <2>2
<1> HIDE DEF T
<1>10. m \in T
  <2>1. \A k \in 0 .. m : k \in T BY <1>1, <1>8, <1>9, Induction
  <2> QED BY <1>1, <2>1
<1>11. merged[Len(K)] = So(m) BY <1>2, <1>10 DEF T
<1>12. Len(So(m)) = n
  <2>1. LenTo(m, e, d) = n BY DEF LenTo, m, CountTo
  <2>2. So(m) = [j \in 1 .. n |-> So(m)[j]] BY <2>1 DEF So, Merged
  <2> DEFINE f == So(m)
  <2> HIDE DEF f
  <2>3. f = [j \in 1 .. n |-> f[j]] BY <2>2 DEF f
  <2> QED BY <2>3, FunctionIs DEF f
<1>13. ~(Len(So(m)) > MaxParts) BY <1>12, TableAssumption
<1> QED BY <1>3, <1>11, <1>13 DEF K, So, m

(* Where the disk ends does not move u-boot's first two partitions.        *)
LEMMA SameStart ==
  ASSUME NEW R, NEW S, NEW c, NEW D, LaysOut(EmptyParts, R, c, 5), LaysOut(EmptyParts, S, D, 5)
  PROVE  R[1] = S[1] /\ R[2] = S[2]
<1>1. \A i \in 1 .. 2 : /\ IsPart(R[i]) /\ IsPart(S[i]) /\ R[i].name = S[i].name
                        /\ R[i].mask = S[i].mask /\ R[i].size = S[i].size
  BY DEF LaysOut
<1>2. R[1].offset = S[1].offset BY DEF LaysOut
<1>3. R[2].offset = S[2].offset BY <1>1 DEF LaysOut
<1> QED BY <1>1, <1>2, <1>3 DEF IsPart

(* A partition on the disk: its end does not wrap, and a size that reaches *)
(* the end of the disk is the size that is left there.                     *)
LEMMA SizeKept ==
  ASSUME NEW p \in [name : STRING, offset : 0 .. DiskSize, size : 0 .. DiskSize, mask : Int],
         p.offset + p.size <= DiskSize
  PROVE  /\ ~(p.offset > DiskSize)
         /\ p.size = IF Cut(ReadBack(p, DiskSize).size, p.offset, DiskSize)
                       THEN Sub(DiskSize, p.offset) ELSE ReadBack(p, DiskSize).size
<1> DEFINE o == p.offset
           s == p.size
           D == DiskSize
           k == ReadBack(p, D).size
<1>1. o \in 0 .. D /\ s \in 0 .. D /\ o + s <= D /\ D \in 1 .. Word - 1 /\ Word \in Nat
  BY ModesAssumption, TableAssumption
<1>2. End(p) = o + s /\ Add(o, s) = o + s
  <2> HIDE DEF o, s, D
  <2>1. o + s \in 0 .. Word - 1 BY <1>1
  <2>2. (o + s) % Word = o + s BY <1>1, <2>1
  <2>3. Add(o, s) = o + s BY <2>2 DEF Add
  <2> QED BY <2>3 DEF End, o, s
<1>3. k = IF o + s >= D THEN Rest ELSE s
  <2>1. k = IF End(p) >= D THEN Rest ELSE s BY DEF ReadBack, Part
  <2> QED BY <1>2, <2>1
<1> HIDE DEF o, s, D, k
<1>4. Sub(D, o) = D - o
  <2>1. D - o \in 0 .. Word - 1 BY <1>1
  <2>2. (D - o) % Word = D - o BY <1>1, <2>1
  <2> QED BY <2>2 DEF Sub
<1>5. CASE o + s >= D
  <2>1. k = Rest /\ s = D - o BY <1>1, <1>3, <1>5
  <2> QED BY <1>1, <1>4, <2>1 DEF Cut, o, s, D, k
<1>6. CASE o + s < D
  <2>1. k = s /\ s # Word - 1 BY <1>1, <1>3, <1>6
  <2>2. ~Cut(k, o, D) BY <1>1, <1>2, <1>6, <2>1 DEF Cut, Rest
  <2> QED BY <1>1, <2>1, <2>2 DEF o, s, D, k
<1> QED BY <1>1, <1>5, <1>6

(* What a table that lies on the disk and begins like the reference reads  *)
(* back as is laid out as the table is.                                    *)
LEMMA LaidAgain ==
  ASSUME NEW P, NEW R, NEW n, NEW e, NEW d, Begins(P, R, DiskSize, n, e, d),
         LaysOut(EmptyParts, R, DiskSize, 5), OnDisk(P), NamedFor(P, n),
         \A i \in 3 .. n : P[i].offset = Add(End(P[i - 1]), GapPartition)
  PROVE  LET Q == Merged(P, DiskSize, CountTo(n, e, d), e, d)
         IN /\ Len(Q) = n /\ \A i \in 1 .. 4 : Q[i].name = PedanticNames[i]
            /\ LaysOut(Q, P, DiskSize, n + 1)
<1> DEFINE m == CountTo(n, e, d)
           Q == Merged(P, DiskSize, m, e, d)
           D == DiskSize
<1>1. /\ n \in Nat /\ n >= 4 /\ e \in 0 .. 1 /\ d \in 0 .. 1
      /\ P[1] = R[1] /\ P[2] = R[2] /\ (e = 0 <=> P[3] = R[3]) /\ (d = 0 <=> P[4] = R[4])
      /\ DOMAIN P = 1 .. n
  BY DEF Begins
<1>2. LenTo(m, e, d) = n BY <1>1 DEF LenTo, CountTo
<1>3. /\ Q = [j \in 1 .. n |-> Q[j]]
      /\ \A j \in 1 .. n : Q[j] = IF Put(j, m, e, d) THEN ReadBack(P[j], D) ELSE EmptyParts[j]
  BY <1>2 DEF Merged
<1> HIDE DEF Q
<1>4. Len(Q) = n BY <1>1, <1>3, FunctionIs
<1>5. \A j \in 1 .. n : Put(j, m, e, d) <=> (j > 4 \/ (j = 3 /\ e = 1) \/ (j = 4 /\ d = 1))
  BY <1>1 DEF Put, CountTo, m
<1>6. \A j \in 1 .. n : P[j] \in [name : STRING, offset : 0 .. DiskSize, size : 0 .. DiskSize, mask : Int]
                        /\ P[j].offset + P[j].size <= DiskSize /\ IsPart(P[j])
  <2>1. \A j \in 1 .. n : P[j] \in [name : STRING, offset : 0 .. DiskSize, size : 0 .. DiskSize, mask : Int]
                        /\ P[j].offset + P[j].size <= DiskSize
    <3> DEFINE S == [name : STRING, offset : 0 .. DiskSize, size : 0 .. DiskSize, mask : Int]
    <3>1. P \in Seq(S) /\ \A j \in DOMAIN P : P[j].offset + P[j].size <= DiskSize BY DEF OnDisk
    <3> HIDE DEF S
    <3>2. \A j \in 1 .. n : P[j] \in S BY <1>1, <3>1
    <3> QED BY <1>1, <3>1, <3>2 DEF S
  <2> QED BY <2>1 DEF IsPart, Part
<1> HIDE DEF m
<1>7. \A j \in 1 .. 4 : EmptyParts[j].name = PedanticNames[j] /\ IsPart(EmptyParts[j])
  BY DEF EmptyParts, PedanticNames, Part, IsPart
<1>8. ASSUME NEW i \in 1 .. n
      PROVE  /\ IsPart(Q[i]) /\ P[i].name = Q[i].name /\ P[i].mask = Q[i].mask
             /\ i <= 2 => P[i].size = Q[i].size
             /\ i > 2 => P[i].size = IF Cut(Q[i].size, P[i].offset, D)
                                       THEN Sub(D, P[i].offset) ELSE Q[i].size
  <2>1. CASE Put(i, m, e, d)
    <3>1. Q[i] = ReadBack(P[i], D) /\ i > 2 BY <1>3, <1>5, <2>1
    <3>2. IsPart(Q[i]) /\ P[i].name = Q[i].name /\ P[i].mask = Q[i].mask
      BY <3>1 DEF ReadBack, Part, IsPart
    <3>3. P[i].size = IF Cut(ReadBack(P[i], DiskSize).size, P[i].offset, DiskSize)
                        THEN Sub(DiskSize, P[i].offset) ELSE ReadBack(P[i], DiskSize).size
      BY <1>6, SizeKept
    <3> QED BY <3>1, <3>2, <3>3
  <2>2. CASE ~Put(i, m, e, d)
    <3>1. Q[i] = EmptyParts[i] /\ i \in 1 .. 4 BY <1>1, <1>3, <1>5, <2>2
    <3>2. P[i] = R[i] BY <1>1, <1>5, <2>2, <3>1
    <3>3. i \in 1 .. 5 - 1 BY <3>1
    <3>4. /\ IsPart(EmptyParts[i]) /\ R[i].name = EmptyParts[i].name
          /\ R[i].mask = EmptyParts[i].mask /\ (i <= 2 => R[i].size = EmptyParts[i].size)
          /\ i > 2 => R[i].size = IF Cut(EmptyParts[i].size, R[i].offset, D)
                                    THEN Sub(D, R[i].offset) ELSE EmptyParts[i].size
      BY <3>3 DEF LaysOut
    <3> QED BY <3>1, <3>2, <3>4
  <2> QED BY <2>1, <2>2
<1>9. \A i \in 1 .. 4 : Q[i].name = PedanticNames[i] BY <1>1, <1>8 DEF NamedFor
<1>10. P[1].offset = 0 /\ P[2].offset = Add(P[1].size, GapReserved)
  BY <1>1 DEF LaysOut
<1>11. \A i \in 1 .. n : ~(P[i].offset > D) BY <1>6, SizeKept
<1>12. \A i \in 1 .. n : i > 2 => P[i].offset = Add(End(P[i - 1]), GapPartition) BY <1>1
<1>13. (n + 1) - 1 = n BY <1>1
<1>14. LaysOut(Q, P, D, n + 1)
  <2>1. \A i \in 1 .. (n + 1) - 1 :
       /\ IsPart(Q[i]) /\ IsPart(P[i]) /\ P[i].name = Q[i].name /\ P[i].mask = Q[i].mask
       /\ i <= 2 => P[i].size = Q[i].size
       /\ i > 2 => /\ P[i].offset = Add(End(P[i - 1]), GapPartition)
                   /\ ~(P[i].offset > D)
                   /\ P[i].size = IF Cut(Q[i].size, P[i].offset, D)
                                    THEN Sub(D, P[i].offset) ELSE Q[i].size
    BY <1>6, <1>8, <1>11, <1>12, <1>13
  <2> HIDE DEF D
  <2> QED BY <1>10, <2>1 DEF LaysOut
<1> QED BY <1>4, <1>9, <1>14 DEF Q, m

(* What ept_table_to_dts_partitions_helper keeps of a pedantic table that  *)
(* lies on the disk is enough: ept_table_from_dts_partitions_helper, and   *)
(* u-boot with it, makes the same table of it (src/ept.c).                 *)
THEOREM RoundTrip ==
  ASSUME NEW P, OnDisk(P), IsPedantic(P), Len(P) <= MaxParts, ToDParts(P, DiskSize).ok
  PROVE  FromDParts(ToDParts(P, DiskSize).dparts, DiskSize) = [ok |-> TRUE, parts |-> P]
<1> DEFINE n == Len(P)
           D == DiskSize
           c == Capacity(P)
<1>1. P = [i \in 1 .. n |-> P[i]] /\ n \in Nat BY DEF OnDisk
<1>2. /\ n >= 4 /\ PedanticReference(c).ok
      /\ \A i \in 1 .. 2 : P[i] = PedanticReference(c).parts[i]
      /\ \A i \in 3 .. 4 : P[i].name = PedanticNames[i]
      /\ \A i \in 3 .. n : P[i].offset = Add(End(P[i - 1]), GapPartition)
  BY DEF IsPedantic
<1>3. P # <<>> /\ D # 0 /\ PedanticReference(D).ok
  <2> DEFINE ok == PedanticReference(D).ok
             dparts == ToDParts(P, D).dparts
  <2>1. ASSUME P = <<>> \/ D = 0 \/ ~ok PROVE ToDParts(P, D) = [ok |-> FALSE, dparts |-> <<>>]
    BY <2>1 DEF ToDParts
  <2>2. ASSUME P = <<>> \/ D = 0 \/ ~ok PROVE FALSE BY <2>1, <2>2
  <2> QED BY <2>2
<1> HIDE DEF n, c, D
<1>4. PICK S : /\ PedanticReference(c) = [ok |-> TRUE, parts |-> S]
               /\ LaysOut(EmptyParts, S, c, 5)
  BY <1>2, ReferenceIs
<1>5. PICK R : /\ PedanticReference(D) = [ok |-> TRUE, parts |-> R]
               /\ LaysOut(EmptyParts, R, D, 5)
  BY <1>3, ReferenceIs
<1>6. P[1] = R[1] /\ P[2] = R[2]
  <2>1. S[1] = R[1] /\ S[2] = R[2] BY <1>4, <1>5, SameStart
  <2>2. PedanticReference(c).parts = S BY <1>4
  <2> QED BY <1>2, <2>1, <2>2
<1> DEFINE e == IF P[3] = R[3] THEN 0 ELSE 1
           d == IF P[4] = R[4] THEN 0 ELSE 1
<1>7. e \in 0 .. 1 /\ d \in 0 .. 1 /\ (e = 0 <=> P[3] = R[3]) /\ (d = 0 <=> P[4] = R[4])
  OBVIOUS
<1> HIDE DEF e, d
<1>8. Begins(P, R, D, n, e, d) BY <1>1, <1>2, <1>3, <1>5, <1>6, <1>7 DEF Begins, n
<1>9. NamedFor(P, n)
  <2>1. R[1].name = "bootloader" /\ R[2].name = "reserved"
    <3>1. R[1].name = EmptyParts[1].name /\ R[2].name = EmptyParts[2].name BY <1>5 DEF LaysOut
    <3> QED BY <3>1 DEF EmptyParts, Part
  <2>2. \A j \in 1 .. 4 : P[j].name = PedanticNames[j] BY <1>2, <1>6, <2>1 DEF PedanticNames
  <2>3. DOMAIN P = 1 .. n BY <1>1
  <2> QED BY <2>2, <2>3 DEF NamedFor, OnDisk, NamesUnique
<1>10. ToDParts(P, D) = [ok |-> TRUE, dparts |-> KeptList(P, D, n, e, d)] BY <1>8, KeptIs
<1> DEFINE K == KeptList(P, D, n, e, d)
           Q == Merged(P, D, CountTo(n, e, d), e, d)
<1>11. FromDParts(K, D) = PedanticOffsets(Q, D)
  BY <1>1, <1>2, <1>7, <1>9, MergedIs DEF n
<1>12. Len(Q) = n /\ (\A i \in 1 .. 4 : Q[i].name = PedanticNames[i]) /\ LaysOut(Q, P, D, n + 1)
  BY <1>2, <1>5, <1>8, <1>9, LaidAgain DEF D
<1> HIDE DEF K, Q
<1>13. PedanticOffsets(Q, D) = [ok |-> TRUE, parts |-> [i \in 1 .. n |-> P[i]]]
  <2> DEFINE f == n + 1
  <2>1. n \in Nat /\ n >= 4 /\ f \in 3 .. n + 1 /\ f > n BY <1>1, <1>2
  <2>2. LaysOut(Q, P, D, f) BY <1>12
  <2>3. f <= n => Add(End(P[f - 1]), GapPartition) > D BY <2>1
  <2> HIDE DEF f, D, n
  <2>4. PedanticOffsets(Q, D)
          = IF f > n THEN [ok |-> TRUE, parts |-> [i \in 1 .. n |-> P[i]]] ELSE Failed
    BY <1>12, <2>1, <2>2, <2>3, Layout
  <2> QED BY <2>1, <2>4
<1>14. ToDParts(P, D).dparts = K BY <1>10 DEF K
<1> QED BY <1>1, <1>11, <1>13, <1>14 DEF D

(***************************************************************************)
(* The node and the table                                                  *)
(***************************************************************************)
(* u-boot makes these partitions of the node.                              *)
Rebuilds(node, parts) ==
  FromDParts(node.parts, DiskSize).ok /\ FromDParts(node.parts, DiskSize).parts = parts

(* What the script leaves of the DTB a reader sees, and of the table       *)
DtbPart(s, node) ==
  /\ (s # <<>> /\ s[1].do = "dtb") => s[1].node = node
  /\ s = <<>> => view = <<>> \/ view[1] = node

EptPart(s, parts) ==
  /\ (s # <<>> /\ s[1].do = "ept") => s[1].new.parts = parts
  /\ s = <<>> => ept.parts = parts

Outcome(s, node, parts) ==
  /\ \A k \in DOMAIN s : /\ s[k].do = "dtb" => s[k].node = node
                         /\ s[k].do = "ept" => s[k].new.parts = parts
  /\ ~Left(s, "dtb") => view = <<>> \/ view[1] = node
  /\ ~Left(s, "ept") => ept.parts = parts

(* The outcome of a script is that of its two parts.                       *)
LEMMA Together ==
  ASSUME NEW a, NEW b, NEW K, NEW L, AtMost(a, K), AtMost(b, L), K \intersect L = {},
         NEW d, NEW e, NEW node, NEW parts, DtbPart(d, node), EptPart(e, parts),
         \/ d = a /\ e = b /\ "ept" \notin K /\ "dtb" \notin L
         \/ d = b /\ e = a /\ "dtb" \notin K /\ "ept" \notin L,
         ~Left(a \o b, "refuse")
  PROVE  Outcome(a \o b, node, parts)
<1> DEFINE s == a \o b
<1>1. /\ \A k \in DOMAIN s :
              \/ k = 1 /\ a # <<>> /\ s[k] = a[1] /\ a[1].do \in K
              \/ k = Len(s) /\ b # <<>> /\ s[k] = b[1] /\ b[1].do \in L
      /\ \A what : Left(s, what) <=> (a # <<>> /\ a[1].do = what) \/ (b # <<>> /\ b[1].do = what)
  BY OneAfterAnother
<1>2. \A x : IsItem(x) => x.do \in {"refuse", "dtb", "ept"} BY DEF IsItem
<1>3. a # <<>> => a[1].do \in K /\ a[1].do \in {"refuse", "dtb", "ept"} BY <1>2 DEF AtMost
<1>4. b # <<>> => b[1].do \in L /\ b[1].do \in {"refuse", "dtb", "ept"} BY <1>2 DEF AtMost
<1> HIDE DEF s
<1>5. \A k \in DOMAIN s : /\ s[k].do = "dtb" => s[k].node = node
                          /\ s[k].do = "ept" => s[k].new.parts = parts
  <2> SUFFICES ASSUME NEW k \in DOMAIN s
               PROVE  /\ s[k].do = "dtb" => s[k].node = node
                      /\ s[k].do = "ept" => s[k].new.parts = parts
    OBVIOUS
  <2>1. (a # <<>> /\ s[k] = a[1] /\ a[1].do \in K) \/ (b # <<>> /\ s[k] = b[1] /\ b[1].do \in L)
    BY <1>1
  <2>2. CASE d = a /\ e = b /\ "ept" \notin K /\ "dtb" \notin L
    BY <2>1, <2>2 DEF DtbPart, EptPart
  <2>3. CASE d = b /\ e = a /\ "dtb" \notin K /\ "ept" \notin L
    BY <2>1, <2>3 DEF DtbPart, EptPart
  <2> QED BY <2>2, <2>3
<1>6. ~Left(s, "refuse") BY DEF s
<1>7. ~Left(s, "dtb") => d = <<>> BY <1>1, <1>3, <1>4, <1>6
<1>8. ~Left(s, "ept") => e = <<>> BY <1>1, <1>3, <1>4, <1>6
<1> QED BY <1>5, <1>7, <1>8 DEF Outcome, DtbPart, EptPart, s

(* What a run on a disk has in memory when it decides.                     *)
Found ==
  /\ content = "disk" /\ table.parts = ept.parts /\ IsTable(table)
  /\ bhelper = view \/ Unfilled(bhelper, view)
  /\ IsList(view) /\ \A k \in DOMAIN view : IsNode(view[k])

(* The first DTB, as the run has it in memory: its list is what a reader   *)
(* of the target finds, unless it has none.                                *)
LEMMA FirstSeen ==
  ASSUME Found, bhelper # <<>>, view # <<>>, view[1].has
  PROVE  bhelper[1] = view[1] /\ view[1] = Node(bhelper[1].parts)
<1>1. 1 \in DOMAIN view BY NoneListed DEF Found
<1>2. IsNode(view[1]) BY <1>1 DEF Found
<1>3. bhelper = view BY DEF Found, Unfilled
<1> QED BY <1>2, <1>3 DEF IsNode, Node

(* The list a mode has for the DTB is there in the end, or the node is not.*)
LEMMA ListPut ==
  ASSUME Found, NEW list, NEW code
  PROVE  \E node : (node.has => node.parts = list) /\ DtbPart(PutDtbIfNew(list, code), node)
<1> DEFINE s == PutDtbIfNew(list, code)
<1>1. /\ AtMost(s, {"dtb"})
      /\ s # <<>> => s[1].do = "dtb" /\ s[1].node = Node(list)
      /\ s = <<>> => SameDParts(list)
  BY DtbWhenNew
<1> HIDE DEF s
<1>2. CASE s # <<>>
  <2>1. Node(list).parts = list BY DEF Node
  <2>2. DtbPart(s, Node(list)) BY <1>1, <1>2 DEF DtbPart
  <2> QED BY <2>1, <2>2 DEF s
<1>3. CASE s = <<>>
  <2>1. bhelper # <<>> /\ bhelper[1].parts = list BY <1>1, <1>3 DEF SameDParts
  <2>2. CASE view = <<>>
    <3>1. DtbPart(s, Node(list)) BY <1>3, <2>2 DEF DtbPart
    <3> QED BY <3>1 DEF Node, s
  <2>3. CASE view # <<>>
    <3>1. view[1].has => view[1].parts = list BY <2>1, <2>3, FirstSeen
    <3>2. DtbPart(s, view[1]) BY <1>3 DEF DtbPart
    <3> QED BY <3>1, <3>2 DEF s
  <2> QED BY <2>2, <2>3
<1> QED BY <1>2, <1>3

(* The table a mode has for the EPT is there in the end.                   *)
LEMMA TablePut ==
  ASSUME Found, NEW new, NEW code, IsTable(new)
  PROVE  EptPart(PutEptIfNew(new, code), new.parts)
BY EptWhenNew DEF EptPart, Found

(* What a mode that makes the table from the DTB leaves there.             *)
Rebuilt(s) == \E node, parts : (node.has => Rebuilds(node, parts)) /\ Outcome(s, node, parts)

(* dclone and dedit                                                        *)
LEMMA DtbThenEptAgree ==
  ASSUME Found, NEW list, ~Left(DtbThenEpt(list), "refuse") PROVE Rebuilt(DtbThenEpt(list))
<1> DEFINE a == PutDtbIfNew(list, 4)
           b == EptFromDtb(list, 5)
           new == FromDParts(list, capacity)
<1>1. AtMost(a, {"dtb"}) BY DtbWhenNew
<1>2. PICK node : (node.has => node.parts = list) /\ DtbPart(a, node) BY ListPut
<1>3. /\ AtMost(b, {"ept", "refuse"})
      /\ ((b # <<>> /\ b[1].do = "ept") => b[1].new.parts = new.parts)
      /\ (b = <<>> => content = "dtb" \/ table.parts = new.parts)
  BY EptDerived
<1>4. DtbThenEpt(list) = a \o b BY DEF DtbThenEpt
<1>5. ASSUME ~new.ok PROVE b = Refuse(5)
  <2> DEFINE ok == new.ok
             put == PutEptIfNew(Table(new.parts), 5)
  <2>1. b = CASE content = "dtb" -> <<>>
               [] content # "dtb" /\ capacity = 0 -> Refuse(5)
               [] OTHER -> IF ok THEN put ELSE Refuse(5)
    BY DEF EptFromDtb
  <2>2. ~ok BY <1>5
  <2> HIDE DEF ok, b, put
  <2> QED BY <2>1, <2>2 DEF Found
<1>6. capacity = DiskSize BY DEF Found, capacity
<1> HIDE DEF a, b, new
<1>7. \A what : Left(a \o b, what) <=> (a # <<>> /\ a[1].do = what) \/ (b # <<>> /\ b[1].do = what)
  <2>1. {"dtb"} \intersect {"ept", "refuse"} = {} OBVIOUS
  <2> QED BY <1>1, <1>3, <2>1, OneAfterAnother
<1>8. new.ok
  <2> SUFFICES ASSUME ~new.ok PROVE FALSE OBVIOUS
  <2>1. b # <<>> /\ b[1].do = "refuse" BY <1>5, Refusals
  <2> QED BY <1>4, <1>7, <2>1
<1>9. EptPart(b, new.parts) BY <1>3 DEF EptPart, Found
<1>10. Outcome(a \o b, node, new.parts)
  <2> DEFINE K == {"dtb"}
             L == {"ept", "refuse"}
  <2>1. AtMost(a, K) /\ AtMost(b, L) /\ K \intersect L = {} /\ "ept" \notin K /\ "dtb" \notin L
    BY <1>1, <1>3
  <2>2. ~Left(a \o b, "refuse") BY <1>4
  <2> HIDE DEF K, L
  <2> QED BY <1>2, <1>9, <2>1, <2>2, Together
<1>11. node.has => Rebuilds(node, new.parts) BY <1>2, <1>6, <1>8 DEF Rebuilds, new
<1> QED BY <1>4, <1>10, <1>11 DEF Rebuilt

(* dtoe                                                                    *)
LEMMA EptAloneAgrees ==
  ASSUME Found, bhelper # <<>>, FromDParts(bhelper[1].parts, capacity).ok
  PROVE  Rebuilt(PutEptIfNew(Table(FromDParts(bhelper[1].parts, capacity).parts), 5))
<1> DEFINE new == FromDParts(bhelper[1].parts, capacity)
           s == PutEptIfNew(Table(new.parts), 5)
           node == IF view = <<>> THEN NoNode ELSE view[1]
<1>1. capacity = DiskSize BY DEF Found, capacity
<1>2. IsTable(Table(new.parts)) /\ Table(new.parts).parts = new.parts BY Tables
<1>3. EptPart(s, new.parts) BY <1>2, TablePut
<1>4. AtMost(s, {"ept"}) BY <1>2, EptWhenNew
<1>5. node.has => Rebuilds(node, new.parts)
  <2> SUFFICES ASSUME node.has PROVE Rebuilds(node, new.parts) OBVIOUS
  <2>1. view # <<>> /\ view[1].has /\ node = view[1] BY DEF NoNode
  <2>2. view[1] = bhelper[1] BY <2>1, FirstSeen
  <2> QED BY <1>1, <2>1, <2>2 DEF Rebuilds
<1>6. Outcome(s, node, new.parts)
  <2> HIDE DEF new
  <2>1. view = <<>> \/ view[1] = node OBVIOUS
  <2> HIDE DEF s, node
  <2>2. CASE s = <<>> BY <1>3, <2>1, <2>2 DEF Outcome, EptPart
  <2>3. CASE \E x : s = <<x>> /\ IsItem(x) /\ x.do \in {"ept"}
    <3>1. PICK x : s = <<x>> /\ x.do = "ept" BY <2>3
    <3>2. DOMAIN s = {1} /\ s[1] = x /\ s # <<>> BY <3>1
    <3> QED BY <1>3, <2>1, <3>1, <3>2 DEF Outcome, EptPart, Left
  <2> QED BY <1>4, <2>2, <2>3 DEF AtMost
<1> QED BY <1>5, <1>6 DEF Rebuilt

(* What a mode that makes the DTB from the table leaves there.             *)
Matched(s) ==
  \E node, parts :
    /\ (node.has /\ OnDisk(parts) /\ Len(parts) <= MaxParts) => Rebuilds(node, parts)
    /\ Outcome(s, node, parts)

(* The DTB that is made from a pedantic table                              *)
LEMMA DtbOfTable ==
  ASSUME Found, NEW parts, IsPedantic(parts), ToDParts(parts, capacity).ok, NEW code
  PROVE  \E node : /\ (node.has /\ OnDisk(parts) /\ Len(parts) <= MaxParts) => Rebuilds(node, parts)
                   /\ DtbPart(PutDtbIfNew(ToDParts(parts, capacity).dparts, code), node)
<1> DEFINE list == ToDParts(parts, capacity).dparts
<1>1. PICK node : (node.has => node.parts = list) /\ DtbPart(PutDtbIfNew(list, code), node)
  BY ListPut
<1>2. capacity = DiskSize BY DEF Found, capacity
<1>3. ASSUME node.has, OnDisk(parts), Len(parts) <= MaxParts PROVE Rebuilds(node, parts)
  <2>1. FromDParts(ToDParts(parts, DiskSize).dparts, DiskSize) = [ok |-> TRUE, parts |-> parts]
    BY <1>2, <1>3, RoundTrip
  <2>2. node.parts = ToDParts(parts, DiskSize).dparts BY <1>1, <1>2, <1>3
  <2> DEFINE f == FromDParts(node.parts, DiskSize)
  <2>3. f = [ok |-> TRUE, parts |-> parts] BY <2>1, <2>2
  <2> HIDE DEF f
  <2>4. f.ok /\ f.parts = parts BY <2>3
  <2> QED BY <2>4 DEF Rebuilds, f
<1> QED BY <1>1, <1>3

(* etod                                                                    *)
LEMMA DtbAloneAgrees ==
  ASSUME Found, IsPedantic(table.parts), ToDParts(table.parts, capacity).ok
  PROVE  Matched(PutDtbIfNew(ToDParts(table.parts, capacity).dparts, 4))
<1> DEFINE parts == table.parts
           s == PutDtbIfNew(ToDParts(parts, capacity).dparts, 4)
<1>1. PICK node : /\ (node.has /\ OnDisk(parts) /\ Len(parts) <= MaxParts) => Rebuilds(node, parts)
                  /\ DtbPart(s, node)
  BY DtbOfTable
<1>2. AtMost(s, {"dtb"}) BY DtbWhenNew
<1>3. ept.parts = parts BY DEF Found
<1> HIDE DEF s, parts
<1>4. Outcome(s, node, parts)
  <2>1. CASE s = <<>> BY <1>1, <1>3, <2>1 DEF Outcome, DtbPart
  <2>2. CASE \E x : s = <<x>> /\ IsItem(x) /\ x.do \in {"dtb"}
    <3>1. PICK x : s = <<x>> /\ x.do = "dtb" BY <2>2
    <3>2. DOMAIN s = {1} /\ s[1] = x /\ s # <<>> BY <3>1
    <3> QED BY <1>1, <1>3, <3>1, <3>2 DEF Outcome, DtbPart, Left
  <2> QED BY <1>2, <2>1, <2>2 DEF AtMost
<1> QED BY <1>1, <1>4 DEF Matched, s, parts

(* eclone, eedit, ecreate                                                  *)
LEMMA EptThenDtbAgree ==
  ASSUME Found, NEW new, IsTable(new), NEW c, NEW d,
         ~Left(PutEptIfNew(new, c) \o DtbFromEpt(new.parts, d), "refuse")
  PROVE  Matched(PutEptIfNew(new, c) \o DtbFromEpt(new.parts, d))
<1> DEFINE parts == new.parts
           a == PutEptIfNew(new, c)
           b == DtbFromEpt(parts, d)
           kept == ToDParts(parts, capacity)
           p == IsPedantic(parts)
           ok == kept.ok
           gone == bhelper # <<>> /\ ~bhelper[1].has
           put == PutDtbIfNew(kept.dparts, d)
<1>1. AtMost(a, {"ept"}) /\ EptPart(a, parts) BY EptWhenNew, TablePut
<1>2. AtMost(b, {"dtb", "refuse"}) BY DtbDerived
<1>3. b = CASE p /\ ok -> put
            [] p /\ ~ok -> Refuse(d)
            [] OTHER -> IF gone THEN <<>> ELSE PutDtb(NoNode, d)
  BY DEF DtbFromEpt
<1>4. (p /\ ok) => \E node : /\ (node.has /\ OnDisk(parts) /\ Len(parts) <= MaxParts) => Rebuilds(node, parts)
                             /\ DtbPart(put, node)
  BY DtbOfTable
<1> HIDE DEF a, b, parts, p, ok, put, kept
<1>5. \A what : Left(a \o b, what) <=> (a # <<>> /\ a[1].do = what) \/ (b # <<>> /\ b[1].do = what)
  <2>1. {"ept"} \intersect {"dtb", "refuse"} = {} OBVIOUS
  <2> QED BY <1>1, <1>2, <2>1, OneAfterAnother
<1>6. ~Left(a \o b, "refuse") BY DEF a, b, parts
<1>7. \E node : /\ (node.has /\ OnDisk(parts) /\ Len(parts) <= MaxParts) => Rebuilds(node, parts)
                /\ DtbPart(b, node)
  <2>1. CASE p /\ ok
    <3>1. b = put BY <1>3, <2>1
    <3> QED BY <1>4, <2>1, <3>1
  <2>2. CASE p /\ ~ok
    <3>1. b = Refuse(d) BY <1>3, <2>2
    <3>2. b # <<>> /\ b[1].do = "refuse" BY <3>1, Refusals
    <3> QED BY <1>5, <1>6, <3>2
  <2>3. CASE ~p /\ gone
    <3>1. b = <<>> BY <1>3, <2>3
    <3>2. view # <<>> => ~view[1].has BY <2>3, FirstSeen
    <3> DEFINE node == IF view = <<>> THEN NoNode ELSE view[1]
    <3>3. ~node.has BY <3>2 DEF NoNode
    <3>4. DtbPart(b, node) BY <3>1 DEF DtbPart
    <3> HIDE DEF node
    <3> QED BY <3>3, <3>4
  <2>4. CASE ~p /\ ~gone
    <3>1. b = PutDtb(NoNode, d) BY <1>3, <2>4
    <3>2. b # <<>> /\ b[1].node = NoNode BY <3>1 DEF PutDtb
    <3>3. DtbPart(b, NoNode) /\ ~NoNode.has BY <3>2 DEF DtbPart, NoNode
    <3> QED BY <3>3
  <2> QED BY <2>1, <2>2, <2>3, <2>4
<1>8. PICK node : /\ (node.has /\ OnDisk(parts) /\ Len(parts) <= MaxParts) => Rebuilds(node, parts)
                  /\ DtbPart(b, node)
  BY <1>7
<1>9. Outcome(a \o b, node, parts)
  <2> DEFINE K == {"ept"}
             L == {"dtb", "refuse"}
  <2>1. AtMost(a, K) /\ AtMost(b, L) /\ K \intersect L = {} /\ "dtb" \notin K /\ "ept" \notin L
    BY <1>1, <1>2
  <2> HIDE DEF K, L
  <2> QED BY <1>1, <1>6, <1>8, <2>1, Together
<1>10. PutEptIfNew(new, c) \o DtbFromEpt(new.parts, d) = a \o b BY DEF a, b, parts
<1> QED BY <1>8, <1>9, <1>10 DEF Matched

(* The node and the table a run is about to leave on a disk                *)
Match(node, parts) ==
  (node.has /\ (FromTheDtb \/ (FromTheEpt /\ OnDisk(parts) /\ Len(parts) <= MaxParts))) =>
    Rebuilds(node, parts)

TwoAgree ==
  (running /\ content = "disk" /\ ~request.dry_run /\ (FromTheDtb \/ FromTheEpt)
   /\ ~Left(script, "refuse")) =>
    \E node, parts : Match(node, parts) /\ Outcome(script, node, parts)

AInv == TwoAgree /\ TableStays

(* A run ends otherwise than well, or another one begins.                  *)
LEMMA AgreeAtRest == ASSUME ~running', cause' # "ok" PROVE AInv'
BY DEF AInv, TwoAgree, TableStays, Success

(* A run goes on.                                                          *)
LEMMA AgreeOn ==
  ASSUME IInv', running', TwoAgree' PROVE AInv'
<1>1. cause' # "ok" BY DEF IInv, Typed, TypedRun, running
<1> QED BY <1>1 DEF AInv, TableStays, Success

(* A run decides what the two are to be.                                   *)
LEMMA DecideAgrees == ASSUME IInv, Decide PROVE TwoAgree'
<1>1. pc = "decide" /\ pc' = "run" /\ UNCHANGED <<content, copies, stable, ept, bhelper, table>>
  BY DEF Decide, target, memory
<1>2. PICK a \in ArgReadings(request.args) :
        request' = [request EXCEPT !.args = a] /\ script' = Script([request EXCEPT !.args = a])
  BY DEF Decide
<1>3. Typed /\ HasRead /\ request \in Requests /\ view = before BY <1>1 DEF IInv, HasRead
<1>4. /\ request \in [mode : {"dtoe", "etod", "dedit", "dclone", "eedit", "eclone", "ecreate"},
                      args : {request.args}, dry_run : BOOLEAN]
  BY <1>3, RequestsAssumption
<1> DEFINE r == [request EXCEPT !.args = a]
<1>5. r.mode \in {"dtoe", "etod", "dedit", "dclone", "eedit", "eclone", "ecreate"} BY <1>4
<1>6. request' = r /\ script' = Script(r) BY <1>2
<1> HIDE DEF r
<1> SUFFICES ASSUME content = "disk", FromTheDtb' \/ FromTheEpt', ~Left(script', "refuse")
             PROVE  (\E node, parts : Match(node, parts) /\ Outcome(script, node, parts))'
  BY <1>1 DEF TwoAgree
<1>7. Found
  <2>1. IsTable(table) /\ table.parts = ept.parts BY <1>1, <1>3 DEF Typed, TypedRun, HasRead
  <2>2. bhelper = view \/ Unfilled(bhelper, view) BY <1>1, <1>3 DEF HasRead
  <2> QED BY <1>3, <2>1, <2>2, ViewIsList DEF Found
<1>8. view' = view BY <1>1 DEF view, Chosen
<1>9. r.mode \in {"dclone", "eclone"} => r.args # <<>>
  BY <1>6 DEF FromTheDtb, FromTheEpt, Asked
<1> DEFINE s == Script(r)
           dtb == r.mode \in {"dtoe", "dclone", "dedit"}
<1>10. ~Left(s, "refuse") BY <1>6 DEF Left
<1>11. IF dtb THEN Rebuilt(s) ELSE Matched(s)
  <2> DEFINE rebuilt == FromDParts(bhelper[1].parts, capacity)
             kept == ToDParts(table.parts, capacity)
             dcloned == DcloneParsed(r.args)
             dedited == DeditParsed(bhelper[1].parts, r.args).parts
             eedited == EeditParsed(table.parts, capacity, r.args).parts
             ecloned == EcloneParsed(r.args, capacity).parts
             ecreated == EcreateParsed(table.parts, capacity, r.args).parts
             new2 == Table(ecloned)
             new3 == Reheaded(eedited)
             new4 == Table(ecreated)
             put1 == PutEptIfNew(Table(rebuilt.parts), 5)
             put2 == PutDtbIfNew(kept.dparts, 4)
             ok1 == bhelper # <<>> /\ rebuilt.ok
             ok2 == IsPedantic(table.parts) /\ kept.ok
  <2>1. \/ \E code : s = Refuse(code)
        \/ r.mode = "dtoe" /\ ok1 /\ s = put1
        \/ r.mode = "etod" /\ ok2 /\ s = put2
        \/ r.mode = "dclone" /\ s = DtbThenEpt(dcloned.parts)
        \/ r.mode = "dedit" /\ s = DtbThenEpt(dedited)
        \/ r.mode = "eclone" /\ s = PutEptIfNew(new2, 4) \o DtbFromEpt(ecloned, 5)
        \/ r.mode = "eedit" /\ s = PutEptIfNew(new3, 3) \o DtbFromEpt(eedited, 4)
        \/ r.mode = "ecreate" /\ s = PutEptIfNew(new4, 4) \o DtbFromEpt(ecreated, 5)
    <3>1. Decides(r) BY <1>5, ScriptIs
    <3> QED BY <1>9, <3>1 DEF Decides
  <2>2. ok1 => Rebuilt(put1) BY <1>7, EptAloneAgrees
  <2>3. ok2 => Matched(put2) BY <1>7, DtbAloneAgrees
  <2>4. /\ IsTable(new2) /\ new2.parts = ecloned /\ IsTable(new3) /\ new3.parts = eedited
        /\ IsTable(new4) /\ new4.parts = ecreated
    BY <1>7, Tables DEF Found
  <2>5. \A list : ~Left(DtbThenEpt(list), "refuse") => Rebuilt(DtbThenEpt(list))
    BY <1>7, DtbThenEptAgree
  <2> HIDE DEF s, put1, put2, ok1, ok2, dcloned, dedited, ecloned, eedited, ecreated, new2, new3, new4
  <2>6. \A new, c, d : IsTable(new) /\ ~Left(PutEptIfNew(new, c) \o DtbFromEpt(new.parts, d), "refuse")
                         => Matched(PutEptIfNew(new, c) \o DtbFromEpt(new.parts, d))
    BY <1>7, EptThenDtbAgree
  <2>7. CASE \E code : s = Refuse(code)
    <3>1. Left(s, "refuse") BY <2>7, RefusalFits
    <3> QED BY <1>10, <3>1
  <2>8. CASE r.mode = "dtoe" /\ ok1 /\ s = put1 BY <2>2, <2>8
  <2>9. CASE r.mode = "etod" /\ ok2 /\ s = put2 BY <2>3, <2>9
  <2>10. CASE r.mode = "dclone" /\ s = DtbThenEpt(dcloned.parts) BY <1>10, <2>5, <2>10
  <2>11. CASE r.mode = "dedit" /\ s = DtbThenEpt(dedited) BY <1>10, <2>5, <2>11
  <2>12. CASE r.mode = "eclone" /\ s = PutEptIfNew(new2, 4) \o DtbFromEpt(ecloned, 5)
    <3>1. s = PutEptIfNew(new2, 4) \o DtbFromEpt(new2.parts, 5) BY <2>4, <2>12
    <3>2. Matched(s) BY <1>10, <2>4, <2>6, <3>1
    <3> QED BY <2>12, <3>2
  <2>13. CASE r.mode = "eedit" /\ s = PutEptIfNew(new3, 3) \o DtbFromEpt(eedited, 4)
    <3>1. s = PutEptIfNew(new3, 3) \o DtbFromEpt(new3.parts, 4) BY <2>4, <2>13
    <3>2. Matched(s) BY <1>10, <2>4, <2>6, <3>1
    <3> QED BY <2>13, <3>2
  <2>14. CASE r.mode = "ecreate" /\ s = PutEptIfNew(new4, 4) \o DtbFromEpt(ecreated, 5)
    <3>1. s = PutEptIfNew(new4, 4) \o DtbFromEpt(new4.parts, 5) BY <2>4, <2>14
    <3>2. Matched(s) BY <1>10, <2>4, <2>6, <3>1
    <3> QED BY <2>14, <3>2
  <2> QED BY <2>1, <2>7, <2>8, <2>9, <2>10, <2>11, <2>12, <2>13, <2>14
<1>12. (FromTheDtb' => dtb) /\ (FromTheEpt' => ~dtb)
  BY <1>6 DEF FromTheDtb, FromTheEpt, Asked
<1> HIDE DEF s
<1>13. PICK node, parts :
         /\ (node.has /\ (FromTheDtb' \/ (FromTheEpt' /\ OnDisk(parts) /\ Len(parts) <= MaxParts)))
              => Rebuilds(node, parts)
         /\ Outcome(s, node, parts)
  BY <1>11, <1>12 DEF Rebuilt, Matched
<1>14. Match(node, parts)' BY <1>13 DEF Match, Rebuilds, OnDisk, NamesUnique
<1>15. Outcome(script, node, parts)' BY <1>1, <1>6, <1>8, <1>13 DEF Outcome, Left, s
<1> QED BY <1>14, <1>15

(* A run is done: what was to be left on the disk is there.                *)
LEMMA ExitAgrees == ASSUME IInv, AInv, Exit PROVE AInv'
<1>1. pc = "run" /\ script = <<>> /\ pc' = "idle"
      /\ UNCHANGED <<content, copies, stable, ept, request, before>>
  BY DEF Exit, Ends, target, history
<1>2. running /\ ~running' BY <1>1 DEF running
<1>3. view' = view BY <1>1 DEF view, Chosen
<1>4. TableStays'
  <2> SUFFICES ASSUME ~request.dry_run, content = "disk", view # <<>>, view[1].has,
                      FromTheDtb \/ (FromTheEpt /\ OnDisk(ept.parts))
               PROVE  Rebuilds(view[1], ept.parts)
    BY <1>1, <1>3 DEF TableStays, Success, FromTheDtb, FromTheEpt, Asked, Rebuilds, OnDisk, NamesUnique
  <2>1. \A what : ~Left(script, what) BY <1>1 DEF Left
  <2>2. PICK node, parts : Match(node, parts) /\ Outcome(script, node, parts)
    BY <1>2, <2>1 DEF AInv, TwoAgree
  <2>3. view[1] = node /\ ept.parts = parts BY <2>1, <2>2 DEF Outcome
  <2>4. Len(ept.parts) <= MaxParts BY TableAssumption DEF IInv, Typed, TypedTarget
  <2> QED BY <2>2, <2>3, <2>4 DEF Match
<1> QED BY <1>2, <1>4 DEF AInv, TwoAgree

(* The next item of the script is done: what it was to leave is there, the *)
(* rest is as it was.                                                      *)
LEMMA AgreeNext ==
  ASSUME IInv, AInv, running, script # <<>>, script' = Tail(script),
         UNCHANGED <<content, request>>, Head(script).do # "refuse",
         Head(script).do = "dtb" => /\ ept' = ept
                                    /\ ~request.dry_run => view' = <<>> \/ view'[1] = Head(script).node,
         Head(script).do = "ept" => /\ view' = view
                                    /\ (content = "disk" /\ ~request.dry_run) => ept' = Head(script).new
  PROVE  TwoAgree'
<1>1. IsScript(script) BY DEF IInv, Scripted
<1>2. /\ Head(script) = script[1] /\ 1 \in DOMAIN script /\ IsItem(script[1])
      /\ \A k \in DOMAIN Tail(script) : k + 1 \in DOMAIN script /\ Tail(script)[k] = script[k + 1]
      /\ \A what : Left(script, what) <=> script[1].do = what \/ Left(Tail(script), what)
      /\ ~Left(Tail(script), script[1].do)
  BY <1>1, Popped
<1>3. script[1].do \in {"dtb", "ept"} BY <1>2 DEF IsItem
<1> DEFINE t == Tail(script)
<1> HIDE DEF t
<1>4. script' = t BY DEF t
<1> SUFFICES ASSUME content = "disk", ~request.dry_run, FromTheDtb \/ FromTheEpt, ~Left(t, "refuse")
             PROVE  (\E node, parts : Match(node, parts) /\ Outcome(script, node, parts))'
  BY <1>4 DEF TwoAgree, FromTheDtb, FromTheEpt, Asked, Left
<1>5. PICK node, parts : Match(node, parts) /\ Outcome(script, node, parts)
  BY <1>2, <1>3 DEF AInv, TwoAgree, t
<1>6. Match(node, parts)' BY <1>5 DEF Match, Rebuilds, OnDisk, NamesUnique, FromTheDtb, FromTheEpt, Asked
<1>7. \A k \in DOMAIN t : /\ t[k].do = "dtb" => t[k].node = node
                          /\ t[k].do = "ept" => t[k].new.parts = parts
  BY <1>2, <1>5 DEF Outcome, t
<1>8. ~Left(t, "dtb") => view' = <<>> \/ view'[1] = node
  BY <1>2, <1>3, <1>5 DEF Outcome, t
<1>9. ~Left(t, "ept") => ept'.parts = parts
  BY <1>2, <1>3, <1>5 DEF Outcome, t
<1>10. Outcome(script, node, parts)' BY <1>4, <1>7, <1>8, <1>9 DEF Outcome, Left
<1> QED BY <1>6, <1>10

(* A step in the middle of writing the DTB                                 *)
LEMMA AgreeMeanwhile ==
  ASSUME IInv, AInv, running, script # <<>>, script[1].do = "dtb",
         UNCHANGED <<content, request, script, ept>>
  PROVE  TwoAgree'
<1>1. 1 \in DOMAIN script BY Popped DEF IInv, Scripted
<1>2. Left(script, "dtb") BY <1>1 DEF Left
<1> SUFFICES ASSUME content = "disk", ~request.dry_run, FromTheDtb \/ FromTheEpt,
                    ~Left(script, "refuse")
             PROVE  (\E node, parts : Match(node, parts) /\ Outcome(script, node, parts))'
  BY DEF TwoAgree, FromTheDtb, FromTheEpt, Asked, Left
<1>3. PICK node, parts : Match(node, parts) /\ Outcome(script, node, parts)
  BY DEF AInv, TwoAgree
<1>4. Match(node, parts)' BY <1>3 DEF Match, Rebuilds, OnDisk, NamesUnique, FromTheDtb, FromTheEpt, Asked
<1>5. Outcome(script, node, parts)' BY <1>2, <1>3 DEF Outcome, Left
<1> QED BY <1>4, <1>5

(* The EPT is written, passed over or refused.                             *)
LEMMA WriteEptAgrees == ASSUME IInv, IInv', AInv, WriteEpt PROVE AInv'
<1> DEFINE legal == content = "dtb" \/ ValidTable(Head(script).new)
<1>1. /\ UNCHANGED <<content, copies, request>> /\ Doing("ept")
  BY DEF WriteEpt
<1>2. IF ~legal THEN Ends(Head(script).code, "refused") /\ UNCHANGED ept
      ELSE Continues /\ ept' = IF content = "dtb" \/ request.dry_run THEN ept ELSE Head(script).new
  BY DEF WriteEpt
<1> HIDE DEF legal
<1>3. CASE ~legal
  <2>1. ~running' /\ cause' # "ok" BY <1>2, <1>3 DEF Ends, running
  <2> QED BY <2>1, AgreeAtRest
<1>4. CASE legal
  <2>1. running /\ script # <<>> /\ Head(script).do = "ept" /\ running' /\ script' = Tail(script)
    BY <1>1, <1>2, <1>4 DEF Doing, Continues, running
  <2>2. view' = view BY <1>1 DEF view, Chosen
  <2>3. (content = "disk" /\ ~request.dry_run) => ept' = Head(script).new BY <1>2, <1>4
  <2>4. TwoAgree' BY <1>1, <2>1, <2>2, <2>3, AgreeNext
  <2> QED BY <2>1, <2>4, AgreeOn
<1> QED BY <1>3, <1>4

(* The DTB is opened, passed over or refused.                              *)
LEMMA OpenDtbAgrees == ASSUME IInv, IInv', AInv, OpenDtb PROVE AInv'
<1>1. /\ UNCHANGED <<content, ept, request>> /\ Doing("dtb")
      /\ \/ Ends(Head(script).code, "refused")
         \/ Ends(Head(script).code, "io")
         \/ request.dry_run /\ Continues
         \/ pc' = "first" /\ UNCHANGED script
  BY DEF OpenDtb
<1>2. running /\ script # <<>> /\ Head(script).do = "dtb" BY <1>1 DEF Doing, running
<1>3. CASE Ends(Head(script).code, "refused") \/ Ends(Head(script).code, "io")
  <2>1. ~running' /\ cause' # "ok" BY <1>3 DEF Ends, running
  <2> QED BY <2>1, AgreeAtRest
<1>4. CASE request.dry_run /\ Continues
  <2>1. running' /\ script' = Tail(script) BY <1>4 DEF Continues, running
  <2>2. TwoAgree' BY <1>1, <1>2, <1>4, <2>1, AgreeNext
  <2> QED BY <2>1, <2>2, AgreeOn
<1>5. CASE pc' = "first" /\ UNCHANGED script
  <2>1. running' BY <1>5 DEF running
  <2>2. script[1].do = "dtb" BY <1>2, AtDtb
  <2>3. TwoAgree' BY <1>1, <1>2, <1>5, <2>2, AgreeMeanwhile
  <2> QED BY <2>1, <2>3, AgreeOn
<1> QED BY <1>1, <1>3, <1>4, <1>5

(* A copy is written.                                                      *)
LEMMA WriteCopyAgrees == ASSUME IInv, IInv', AInv, WriteCopy PROVE AInv'
<1>1. /\ pc \in {"first", "second"} /\ pc' \in {"second", "sync"}
      /\ UNCHANGED <<content, ept, request, script>>
  BY DEF WriteCopy
<1>2. running /\ running' /\ script # <<>> /\ script[1].do = "dtb"
  BY <1>1 DEF running, IInv, Copied
<1>3. TwoAgree' BY <1>1, <1>2, AgreeMeanwhile
<1> QED BY <1>2, <1>3, AgreeOn

(* The copies are synced: a reader sees what was written.                  *)
LEMMA SyncAgrees == ASSUME IInv, IInv', AInv, SyncDtb PROVE AInv'
<1> DEFINE node == Head(script).node
<1>1. /\ UNCHANGED <<content, copies, ept, request>> /\ pc = "sync"
      /\ Continues \/ Ends(Head(script).code, "io")
  BY DEF SyncDtb
<1>2. /\ running /\ script # <<>> /\ script[1].do = "dtb" /\ HasRead /\ pc # "idle"
      /\ \A k \in Hands : copies[k] = composed
  BY <1>1 DEF running, IInv, Copied
<1>3. Head(script) = script[1] /\ IsItem(script[1]) BY <1>2, Popped DEF IInv, Scripted
<1>4. CASE Ends(Head(script).code, "io")
  <2>1. ~running' /\ cause' # "ok" BY <1>4 DEF Ends, running
  <2> QED BY <2>1, AgreeAtRest
<1>5. CASE Continues
  <2>1. running' /\ script' = Tail(script) BY <1>5 DEF Continues, running
  <2>2. view' = <<>> \/ view'[1] = node
    <3>1. Chosen(copies) = composed
      <4>1. 1 \in Hands /\ (content # "dtb" => 2 \in Hands) BY DEF Hands
      <4> QED BY <1>2, <4>1 DEF Chosen
    <3>2. view' = composed.dtbs BY <1>1, <3>1 DEF view, Chosen
    <3>3. composed = Composed(node) BY DEF composed
    <3>4. IsNode(node) BY <1>2, <1>3 DEF IsItem
    <3> HIDE DEF node
    <3>5. IsCopy(Composed(node)) /\ \A k \in DOMAIN Composed(node).dtbs : Composed(node).dtbs[k] = node
      BY <1>2, <3>4, ComposedFits
    <3>6. composed.dtbs # <<>> => 1 \in DOMAIN composed.dtbs
      BY <3>3, <3>5, NoneListed DEF IsCopy
    <3> QED BY <3>2, <3>3, <3>5, <3>6
  <2> HIDE DEF node
  <2>3. TwoAgree' BY <1>1, <1>2, <1>3, <2>1, <2>2, AgreeNext DEF node
  <2> QED BY <2>1, <2>3, AgreeOn
<1> QED BY <1>1, <1>4, <1>5

(* The two agree whenever a run has ended well.                            *)
LEMMA Agreement == Spec => [](IInv /\ AInv)
<1>1. Init => AInv BY DEF Init, AInv, TwoAgree, TableStays, Success, running
<1>2. ASSUME IInv, IInv', AInv, [Next]_vars PROVE AInv'
  <2>1. ASSUME ~running', cause' # "ok" PROVE AInv' BY <2>1, AgreeAtRest
  <2>2. CASE \E r \in Requests : Start(r)
    <3>1. pc' = "decide" /\ cause' = "none" BY <2>2 DEF Start
    <3> QED BY <2>1, <3>1 DEF running
  <2>3. CASE Decide
    <3>1. running' BY <2>3 DEF Decide, running
    <3> QED BY <1>2, <2>3, <3>1, DecideAgrees, AgreeOn
  <2>4. CASE Exit BY <1>2, <2>4, ExitAgrees
  <2>5. CASE Refused \/ Kill \/ LosePower
    <3>1. pc' = "idle" /\ cause' \in {"refused", "killed", "power"}
      BY <2>5 DEF Refused, Kill, LosePower, Ends
    <3> QED BY <2>1, <3>1 DEF running
  <2>6. CASE \E why \in {"io", "killed"} : CutEpt(why) \/ CutCopy(why)
    <3>1. pc' = "idle" /\ cause' \in {"io", "killed"} BY <2>6 DEF CutEpt, CutCopy, Ends
    <3> QED BY <2>1, <3>1 DEF running
  <2>7. CASE WriteEpt BY <1>2, <2>7, WriteEptAgrees
  <2>8. CASE OpenDtb BY <1>2, <2>8, OpenDtbAgrees
  <2>9. CASE WriteCopy BY <1>2, <2>9, WriteCopyAgrees
  <2>10. CASE SyncDtb BY <1>2, <2>10, SyncAgrees
  <2>11. CASE UNCHANGED vars
    <3>1. UNCHANGED <<content, copies, ept, request, script, pc, cause, before>>
      BY <2>11 DEF vars, target, history
    <3>2. view' = view BY <3>1 DEF view, Chosen
    <3>3. TwoAgree'
      <4>1. \A node, parts : Match(node, parts)' <=> Match(node, parts)
        BY <3>1 DEF Match, Rebuilds, OnDisk, NamesUnique, FromTheDtb, FromTheEpt, Asked
      <4>2. \A node, parts : Outcome(script, node, parts)' <=> Outcome(script, node, parts)
        BY <3>1, <3>2 DEF Outcome, Left
      <4>3. TwoAgree BY <1>2 DEF AInv
      <4> QED BY <3>1, <4>1, <4>2, <4>3 DEF TwoAgree, running, FromTheDtb, FromTheEpt, Asked, Left
    <3>4. TableStays'
      BY <1>2, <3>1, <3>2 DEF AInv, TableStays, Success, Uniform, FromTheDtb, FromTheEpt, Asked,
           OnDisk, NamesUnique
    <3> QED BY <3>3, <3>4 DEF AInv
  <2> QED BY <1>2, <2>2, <2>3, <2>4, <2>5, <2>6, <2>7, <2>8, <2>9, <2>10, <2>11 DEF Next
<1> QED BY <1>1, <1>2, Invariance, PTL DEF Spec

(* u-boot, rebuilding the EPT of a disk from the DTB, changes nothing      *)
(* after a run that returned 0: the conversions of src/ept.c are each      *)
(* other's inverse on every table that lies on the disk, and no comparison *)
(* that saves a write leaves an older node or an older table there.        *)
THEOREM TableKept == Spec => []TableStays
<1>1. IInv /\ AInv => TableStays BY DEF AInv
<1> QED BY <1>1, Agreement, PTL

==============================================================================
