----------------------------- MODULE MCDtbRewrite -----------------------------
(* Device trees with phandles in other nodes before and after /partitions, *)
(* with and without linux,phandle, children out of order, records that do  *)
(* not match, illegal phandles and properties, and no or two /partitions.  *)
EXTENDS DtbRewrite

A == Simple("data", 4, 4)
B == Simple("sys", 2, 1)
C == Simple("cache", 1, 2)

Node(name, props) == << Begin(name) >> \o props \o << End >>
Old(part, handles) ==
  Node(part.name, << Pname(part.name), Prop("size", part.size), Prop("mask", part.mask) >> \o handles)
H(v) == << Prop("phandle", v) >>
L(v) == << Prop("phandle", v), Prop("linux,phandle", v) >>

Soc == Node("soc", << Prop("compatible", 0), Nop >> \o Node("uart", H(3)))
Gpio == Node("gpio", H(1))
Tree(inside) == << Begin("") >> \o << Prop("model", 0) >> \o inside \o << End, Fin >>

Parts(n, record, root, children) ==
  << Begin("partitions"), Prop("parts", n) >>
    \o [k \in DOMAIN record |-> PartProp(k - 1, record[k])] \o root \o children \o << End >>

Two == Parts(2, << 2, 5 >>, L(4), Old(A, L(5)) \o Old(B, L(2)))
Three == Parts(3, << 7, 9, 2 >>, H(4), Old(A, H(2)) \o << Nop >> \o Old(B, H(7)) \o Old(C, H(9)))
Linux == Parts(1, << 6 >>, H(4), Old(A, << Prop("linux,phandle", 6) >>))
Miscounted == Parts(3, << 2, 5 >>, H(4), Old(A, H(5)) \o Old(B, H(2)))
Unlike == Parts(2, << 2, 5 >>, H(4),
                Old(B, H(2)) \o Old(A, << Prop("phandle", 5), Prop("linux,phandle", 6) >>))
Foreign == Parts(1, << 2 >>, H(4), Old(A, H(2) \o << Prop("read-only", 0) >>))
Misfits == Parts(1, << 2 >>, H(4), Old(A, << Prop("phandle", Misfit) >>))
Clash == Parts(1, << 3 >>, H(4), Old(A, H(3)))

Names == Essential \union {"linux,phandle"}
Dtb(target, toks) == [target |-> target, strings |-> Names, toks |-> toks]
Bare(target, toks) == [target |-> target, strings |-> {"phandle"}, toks |-> toks]

Plain(dtb) == [form |-> "plain", zipped |-> FALSE, header |-> <<>>, dtbs |-> << dtb >>]
Multi(header, dtbs) == [form |-> "multi", zipped |-> FALSE, header |-> header, dtbs |-> dtbs]

MCImages ==
  { Plain(Dtb("1g", Tree(t))) :
      t \in { Two \o Soc, Soc \o Two \o Gpio, Soc \o Three, Gpio \o Linux \o Soc, Soc \o Miscounted,
              Gpio \o Unlike, Soc \o Foreign, Gpio \o Misfits, Soc \o Clash, Two,
              Soc \o Linux \o Two, Soc \o Two \o Misfits } }
    \union { Plain(Bare("1g", Tree(Soc \o Gpio))), Plain(Bare("1g", Tree(<<>>))),
             Plain(Bare("1g", << Nop >> \o Tree(Soc \o << Nop >>))),
             Plain(Bare("1g", << Begin("") >> \o Soc \o << End, Nop, Fin >>)),
             Multi(<< "1g", "2g" >>, << Dtb("1g", Tree(Two \o Soc)), Bare("2g", Tree(Gpio)) >>),
             Multi(<< "1g", "2g" >>, << Dtb("1g", Tree(Two \o Soc)), Dtb("2g", Tree(Gpio \o Unlike)) >>),
             Multi(<< "2g", "1g" >>, << Dtb("1g", Tree(Two \o Soc)), Bare("2g", Tree(Gpio)) >>),
             [Multi(<< "1g" >>, << Dtb("1g", Tree(Soc \o Three)) >>) EXCEPT !.zipped = TRUE] }

MCLists == { <<>>, << A >>, << B, A >>, << C, B, A >> }
==============================================================================
