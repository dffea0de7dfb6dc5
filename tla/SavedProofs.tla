----------------------------- MODULE SavedProofs -----------------------------
(***************************************************************************)
(* What ConfigReseau.xml holds, against what the searches have found: the  *)
(* file is changed by seven handlers, one of them once per machine, each   *)
(* of them loading and saving all of it, with failures and crashes between.*)
(***************************************************************************)
EXTENDS MasterProofs

(* A machine that has not said how many videos it can show is not among the users. *)
Complete(us) == \A j \in DOMAIN us : us[j].ip \notin Incomplete

(* Every configuration of the first file could have been recorded by this program. *)
UsableFirst ==
    \A k \in DOMAIN InitDocument.configs :
        /\ Complete(InitDocument.configs[k].users)
        /\ InitDocument.configs[k].users # <<>>

(* What holds of a configuration after any faults; notes is what was found, last the last date
   that was used. *)
RightEntry(c, notes, last) ==
    /\ UsableFirst => Complete(c.users)
    /\ c.date # NoDate => c.date <= last /\ SomeKnown(c.users, notes[c.date])

Distinct(cs) ==
    \A i, j \in DOMAIN cs : cs[i].date = cs[j].date /\ cs[i].date # NoDate => i = j

RightConfigs(cs, notes, last) ==
    /\ \A k \in DOMAIN cs : RightEntry(cs[k], notes, last)
    /\ Distinct(cs)

(* The configuration with this date has been given some of the machines ms. *)
Partly(cs, date, ms) ==
    \A k \in DOMAIN cs : cs[k].date = date => SomeKnown(cs[k].users, ms)

(* Without a fault: the configuration with that date has been given all of ms, the other ones
   are all that was found. *)
ExactEntry(c, notes, date, ms) ==
    /\ c.date # NoDate
    /\ c.date = date => AddressesIn(c.users) = ms
    /\ c.date # date => /\ AddressesIn(c.users) = notes[c.date]
                        /\ UsableFirst => c.users # <<>>

Exact(cs, notes, date, ms) == \A k \in DOMAIN cs : ExactEntry(cs[k], notes, date, ms)

NoneRecorded == 0
Notes == [Dates -> Seq(Machines)]
-----------------------------------------------------------------------------
(* The addresses of some users. *)
LEMMA AddressesInIs ==
    ASSUME NEW us \in Seq(User)
    PROVE  /\ AddressesIn(us) \in Seq(Machines \cup {NoAddress})
           /\ Len(AddressesIn(us)) = Len(us)
           /\ DOMAIN us = 1 .. Len(us) /\ Len(us) \in Nat
           /\ \A k \in DOMAIN us : AddressesIn(us)[k] = us[k].ip
<1>1. DOMAIN us = 1 .. Len(us) /\ Len(us) \in Nat
  OBVIOUS
<1>2. \A k \in DOMAIN us : us[k].ip \in Machines \cup {NoAddress}
  <2> TAKE k \in DOMAIN us
  <2>1. us[k] \in User
    BY Cutting
  <2> QED BY <2>1 DEF User
<1> QED BY <1>1, <1>2 DEF AddressesIn

(* The users whose address is known. *)
KnownIn(us) == {k \in DOMAIN us : us[k].ip # NoAddress}

(* How to find them among the machines. *)
LEMMA KnownBy ==
    ASSUME NEW us, NEW t, NEW f \in [KnownIn(us) -> DOMAIN t],
           \A i, j \in KnownIn(us) : i < j => f[i] < f[j],
           \A i \in KnownIn(us) : us[i].ip = t[f[i]]
    PROVE  SomeKnown(us, t)
  BY Zenon DEF SomeKnown, KnownIn

(* Known users that are some of the machines are found among them in this way. *)
LEMMA KnownWhere ==
    ASSUME NEW us, NEW t, SomeKnown(us, t)
    PROVE  \E f \in [KnownIn(us) -> DOMAIN t] :
               /\ \A i, j \in KnownIn(us) : i < j => f[i] < f[j]
               /\ \A i \in KnownIn(us) : us[i].ip = t[f[i]]
  BY Zenon DEF SomeKnown, KnownIn

(* Users of whom less is known are still some of the machines. *)
LEMMA KnownFewer ==
    ASSUME NEW us \in Seq(User), NEW vs \in Seq(User), NEW t, Len(vs) <= Len(us),
           \A j \in DOMAIN vs : vs[j].ip \in {us[j].ip, NoAddress},
           SomeKnown(us, t)
    PROVE  SomeKnown(vs, t)
<1>1. PICK f \in [KnownIn(us) -> DOMAIN t] :
          /\ \A i, j \in KnownIn(us) : i < j => f[i] < f[j]
          /\ \A i \in KnownIn(us) : us[i].ip = t[f[i]]
  BY KnownWhere
<1>2. \A k \in DOMAIN vs : k \in DOMAIN us
  BY AddressesInIs
<1>3. KnownIn(vs) \subseteq KnownIn(us)
  BY <1>2 DEF KnownIn
<1>4. \A k \in KnownIn(vs) : vs[k].ip = us[k].ip
  BY DEF KnownIn
<1> DEFINE g == [k \in KnownIn(vs) |-> f[k]]
<1>5. g \in [KnownIn(vs) -> DOMAIN t]
  BY <1>1, <1>3
<1>6. \A i \in KnownIn(vs) : g[i] = f[i] /\ i \in KnownIn(us)
  BY <1>3
<1> HIDE DEF g
<1>7. \A i, j \in KnownIn(vs) : i < j => g[i] < g[j]
  BY <1>1, <1>6
<1>8. \A i \in KnownIn(vs) : vs[i].ip = t[g[i]]
  BY <1>1, <1>4, <1>6
<1> QED BY <1>5, <1>7, <1>8, KnownBy

(* More machines make no difference, *)
LEMMA KnownAmongMore ==
    ASSUME NEW us \in Seq(User), NEW t \in Seq(Machines), NEW u \in Seq(Machines),
           Len(t) <= Len(u), \A k \in 1 .. Len(t) : u[k] = t[k],
           SomeKnown(us, t)
    PROVE  SomeKnown(us, u)
<1>1. PICK f \in [KnownIn(us) -> DOMAIN t] :
          /\ \A i, j \in KnownIn(us) : i < j => f[i] < f[j]
          /\ \A i \in KnownIn(us) : us[i].ip = t[f[i]]
  BY KnownWhere
<1>2. DOMAIN t \subseteq DOMAIN u /\ \A k \in DOMAIN t : u[k] = t[k]
  OBVIOUS
<1>3. f \in [KnownIn(us) -> DOMAIN u]
  BY <1>2
<1>4. \A i \in KnownIn(us) : us[i].ip = u[f[i]]
  BY <1>1, <1>2
<1> QED BY <1>1, <1>3, <1>4, KnownBy

(* nobody is some of any machines, *)
LEMMA NobodyKnown == ASSUME NEW t PROVE SomeKnown(<<>>, t)
<1>1. KnownIn(<<>>) = {}
  BY DEF KnownIn
<1> DEFINE f == [k \in {} |-> t[k]]
<1>2. f \in [KnownIn(<<>>) -> DOMAIN t]
  BY <1>1
<1> HIDE DEF f
<1> QED BY <1>1, <1>2, KnownBy

(* and the next user is the next machine. *)
LEMMA KnownOneMore ==
    ASSUME NEW us \in Seq(User), NEW t \in Seq(Machines), NEW m \in Machines, SomeKnown(us, t)
    PROVE  SomeKnown(Append(us, FullUser(m)), Append(t, m))
<1> DEFINE more == Append(us, FullUser(m))
           longer == Append(t, m)
           last == Len(us) + 1
<1>1. PICK f \in [KnownIn(us) -> DOMAIN t] :
          /\ \A i, j \in KnownIn(us) : i < j => f[i] < f[j]
          /\ \A i \in KnownIn(us) : us[i].ip = t[f[i]]
  BY KnownWhere
<1>2. FullUser(m) \in User /\ FullUser(m).ip = m /\ m # NoAddress
  BY FileAssumption DEF FullUser, User
<1>3. /\ DOMAIN us = 1 .. Len(us) /\ Len(us) \in Nat
      /\ DOMAIN more = 1 .. last
      /\ \A k \in 1 .. Len(us) : more[k] = us[k]
      /\ more[last] = FullUser(m)
  BY <1>2
<1>4. /\ DOMAIN t = 1 .. Len(t) /\ Len(t) \in Nat
      /\ DOMAIN longer = 1 .. Len(t) + 1
      /\ \A k \in 1 .. Len(t) : longer[k] = t[k]
      /\ longer[Len(t) + 1] = m
  OBVIOUS
<1> HIDE DEF more, longer
<1>5. KnownIn(more) = KnownIn(us) \cup {last}
  BY <1>2, <1>3 DEF KnownIn
<1>6. \A k \in KnownIn(us) : k \in 1 .. Len(us) /\ k < last /\ more[k] = us[k]
  BY <1>3 DEF KnownIn
<1> DEFINE g == [k \in KnownIn(more) |-> IF k = last THEN Len(t) + 1 ELSE f[k]]
<1>7. \A k \in KnownIn(us) : f[k] \in 1 .. Len(t) /\ f[k] < Len(t) + 1 /\ g[k] = f[k]
  BY <1>1, <1>4, <1>5, <1>6
<1>8. g[last] = Len(t) + 1
  BY <1>5
<1>9. g \in [KnownIn(more) -> DOMAIN longer]
  BY <1>4, <1>5, <1>7, <1>8
<1> HIDE DEF g
<1>10. \A i, j \in KnownIn(more) : i < j => g[i] < g[j]
  <2> SUFFICES ASSUME NEW i \in KnownIn(more), NEW j \in KnownIn(more), i < j
               PROVE  g[i] < g[j]
    OBVIOUS
  <2>1. i \in KnownIn(us)
    <3>1. j <= last /\ j \in Nat /\ i \in Nat
      BY <1>3, <1>5, <1>6
    <3> QED BY <1>3, <1>5, <3>1
  <2>2. CASE j = last
    BY <1>7, <1>8, <2>1, <2>2
  <2>3. CASE j \in KnownIn(us)
    BY <1>1, <1>7, <2>1, <2>3
  <2> QED BY <1>5, <2>2, <2>3
<1>11. \A i \in KnownIn(more) : more[i].ip = longer[g[i]]
  <2>1. more[last].ip = longer[g[last]]
    BY <1>2, <1>3, <1>4, <1>8
  <2>2. \A i \in KnownIn(us) : more[i].ip = longer[g[i]]
    BY <1>1, <1>4, <1>6, <1>7
  <2> QED BY <1>5, <2>1, <2>2
<1>12. SomeKnown(more, longer)
  BY <1>9, <1>10, <1>11, KnownBy
<1> QED BY <1>12 DEF more, longer

(* What was found is some of itself. *)
LEMMA AllKnown ==
    ASSUME NEW us \in Seq(User)
    PROVE  SomeKnown(us, AddressesIn(us))
<1>1. /\ \A k \in DOMAIN us : AddressesIn(us)[k] = us[k].ip
      /\ DOMAIN AddressesIn(us) = DOMAIN us /\ DOMAIN us \subseteq Nat
  BY AddressesInIs
<1> DEFINE f == [k \in KnownIn(us) |-> k]
<1>2. f \in [KnownIn(us) -> DOMAIN AddressesIn(us)]
  BY <1>1 DEF KnownIn
<1>3. \A i \in KnownIn(us) : f[i] = i /\ i \in DOMAIN us
  BY DEF KnownIn
<1> HIDE DEF f
<1> QED BY <1>1, <1>2, <1>3, KnownBy

(* If all are known, their addresses are some of the machines. *)
LEMMA AddressesKnown ==
    ASSUME NEW us \in Seq(User), NEW t, SomeKnown(us, t),
           \A k \in DOMAIN us : us[k].ip # NoAddress
    PROVE  SomeOf(AddressesIn(us), t)
<1>1. PICK f \in [KnownIn(us) -> DOMAIN t] :
          /\ \A i, j \in KnownIn(us) : i < j => f[i] < f[j]
          /\ \A i \in KnownIn(us) : us[i].ip = t[f[i]]
  BY KnownWhere
<1>2. KnownIn(us) = DOMAIN us
  BY DEF KnownIn
<1>3. /\ \A k \in DOMAIN us : AddressesIn(us)[k] = us[k].ip
      /\ DOMAIN AddressesIn(us) = DOMAIN us
  BY DEF AddressesIn
<1> HIDE DEF AddressesIn
<1> QED BY <1>1, <1>2, <1>3, Zenon DEF SomeOf

(* All or nothing is some. *)
LEMMA SomeOfAll ==
    ASSUME NEW s \in Seq(Machines), NEW t \in Seq(Machines), s \in {<<>>, t}
    PROVE  SomeOf(s, t)
<1>1. CASE s = <<>>
  <2> DEFINE f == [k \in {} |-> t[k]]
  <2>1. DOMAIN s = {}
    BY <1>1
  <2>2. f \in [DOMAIN s -> DOMAIN t]
    BY <2>1
  <2> HIDE DEF f
  <2> QED BY <2>1, <2>2 DEF SomeOf
<1>2. CASE s = t
  <2> DEFINE f == [k \in DOMAIN t |-> k]
  <2>1. f \in [DOMAIN s -> DOMAIN t] /\ \A k \in DOMAIN s : f[k] = k
    BY <1>2
  <2> HIDE DEF f
  <2> QED BY <1>2, <2>1 DEF SomeOf
<1> QED BY <1>1, <1>2
-----------------------------------------------------------------------------
(* Places of a sequence of configurations, and what they hold. *)
LEMMA ConfigAt ==
    ASSUME NEW cs \in Seq(Config), NEW k \in DOMAIN cs
    PROVE  /\ cs[k] \in Config /\ cs[k].users \in Seq(User)
           /\ cs[k].date \in Dates \cup {NoDate}
           /\ k \in 1 .. Len(cs) /\ Len(cs) \in Nat
<1>1. cs[k] \in Config
  BY Cutting
<1> QED BY <1>1 DEF Config

(* Configurations of which less is known are still right. *)
LEMMA RightFewer ==
    ASSUME NEW cs, NEW ds, NEW notes, NEW last, RightConfigs(cs, notes, last),
           DOMAIN ds \subseteq DOMAIN cs,
           \A j \in DOMAIN ds : /\ RightEntry(ds[j], notes, last)
                                /\ ds[j].date \in {cs[j].date, NoDate}
    PROVE  RightConfigs(ds, notes, last)
  BY DEF RightConfigs, Distinct

(* The beginning of one user shows no more than the user, *)
LEMMA LessOfUser ==
    ASSUME NEW x \in User, NEW u \in CutUser(x)
    PROVE  u \in User /\ u.ip \in {x.ip, NoAddress}
<1>1. u \in {[ip |-> NoAddress, rest |-> FALSE], [x EXCEPT !.rest = FALSE], x}
  BY DEF CutUser
<1>2. CASE u = [ip |-> NoAddress, rest |-> FALSE]
  BY <1>2 DEF User
<1>3. CASE u = [x EXCEPT !.rest = FALSE]
  BY <1>3 DEF User
<1>4. CASE u = x
  BY <1>4
<1> QED BY <1>1, <1>2, <1>3, <1>4

(* a beginning of a list of users shows no more than the list. *)
LEMMA CutUsersLess ==
    ASSUME NEW us \in Seq(User), NEW vs \in CutUsers(us)
    PROVE  /\ vs \in Seq(User) /\ Len(vs) <= Len(us)
           /\ \A j \in DOMAIN vs : vs[j].ip \in {us[j].ip, NoAddress}
<1>1. vs \in Seq(User)
  BY UsersCut
<1>2. CASE vs = us
  BY <1>2
<1>3. ASSUME NEW k \in DOMAIN us, vs = SubSeq(us, 1, k - 1)
      PROVE  Len(vs) <= Len(us) /\ \A j \in DOMAIN vs : vs[j] = us[j]
  BY <1>3
<1>4. ASSUME NEW k \in DOMAIN us, NEW u \in CutUser(us[k]), vs = Append(SubSeq(us, 1, k - 1), u)
      PROVE  Len(vs) <= Len(us) /\ \A j \in DOMAIN vs : vs[j].ip \in {us[j].ip, NoAddress}
  <2> DEFINE begun == SubSeq(us, 1, k - 1)
  <2>1. us[k] \in User /\ k \in 1 .. Len(us) /\ Len(us) \in Nat
    BY Cutting
  <2>2. u \in User /\ u.ip \in {us[k].ip, NoAddress}
    BY <2>1, LessOfUser
  <2>3. begun \in Seq(User) /\ Len(begun) = k - 1 /\ \A j \in 1 .. k - 1 : begun[j] = us[j]
    BY <2>1
  <2> HIDE DEF begun
  <2>4. /\ Len(vs) = k /\ DOMAIN vs = 1 .. k /\ vs[k] = u
        /\ \A j \in 1 .. k - 1 : vs[j] = us[j]
    BY <1>4, <2>1, <2>2, <2>3 DEF begun
  <2>5. \A j \in 1 .. k : j = k \/ j \in 1 .. k - 1
    BY <2>1
  <2> QED BY <2>1, <2>2, <2>4, <2>5
<1>5. \/ vs = us
      \/ \E k \in DOMAIN us : \/ vs = SubSeq(us, 1, k - 1)
                              \/ \E u \in CutUser(us[k]) : vs = Append(SubSeq(us, 1, k - 1), u)
  BY DEF CutUsers
<1> QED BY <1>1, <1>2, <1>3, <1>4, <1>5

(* A machine without an address is not Incomplete. *)
LEMMA CompleteFewer ==
    ASSUME NEW us, NEW vs, DOMAIN vs \subseteq DOMAIN us,
           \A j \in DOMAIN vs : vs[j].ip \in {us[j].ip, NoAddress}, Complete(us)
    PROVE  Complete(vs)
<1>1. NoAddress \notin Incomplete
  BY FileAssumption, DiscoveryAssumption
<1> QED BY <1>1 DEF Complete

(* What is left of a configuration whose text was cut is right. *)
LEMMA CutConfigRight ==
    ASSUME NEW c \in Config, NEW notes, NEW last, RightEntry(c, notes, last),
           NEW b \in CutConfig(c)
    PROVE  /\ RightEntry(b, notes, last) /\ b \in Config
           /\ b.date \in {c.date, NoDate}
<1>1. c.users \in Seq(User) /\ c.date \in Dates \cup {NoDate} /\ <<>> \in Seq(User)
  BY DEF Config
<1>2. CASE b = [date |-> NoDate, users |-> <<>>]
  BY <1>1, <1>2 DEF RightEntry, Complete, Config
<1>3. ASSUME NEW us \in CutUsers(c.users), b = [c EXCEPT !.users = us]
      PROVE  RightEntry(b, notes, last) /\ b \in Config /\ b.date = c.date
  <2>1. /\ us \in Seq(User) /\ Len(us) <= Len(c.users)
        /\ \A j \in DOMAIN us : us[j].ip \in {c.users[j].ip, NoAddress}
    BY <1>1, CutUsersLess
  <2>2. b.users = us /\ b.date = c.date /\ b \in Config
    BY <1>1, <1>3, <2>1 DEF Config
  <2>3. DOMAIN us \subseteq DOMAIN c.users
    BY <1>1, <2>1
  <2>4. Complete(c.users) => Complete(us)
    BY <2>1, <2>3, CompleteFewer
  <2>5. c.date # NoDate => SomeKnown(us, notes[c.date])
    BY <1>1, <2>1, KnownFewer DEF RightEntry
  <2> QED BY <2>2, <2>4, <2>5 DEF RightEntry
<1> QED BY <1>2, <1>3 DEF CutConfig

(* A crash in SaveFile leaves right configurations. *)
LEMMA CutsRight ==
    ASSUME NEW d \in Document, NEW notes, NEW last, RightConfigs(d.configs, notes, last),
           NEW e \in Cuts(d)
    PROVE  RightConfigs(e.configs, notes, last)
<1> DEFINE cs == d.configs
<1>1. cs \in Seq(Config)
  BY DEF Document
<1>2. RightConfigs(<<>>, notes, last)
  BY DEF RightConfigs, Distinct
<1>3. ASSUME NEW k \in DOMAIN cs, NEW b \in CutConfig(cs[k])
      PROVE  RightConfigs(Append(SubSeq(cs, 1, k - 1), b), notes, last)
  <2> DEFINE begun == SubSeq(cs, 1, k - 1)
             ds == Append(begun, b)
  <2>1. k \in 1 .. Len(cs) /\ Len(cs) \in Nat /\ cs[k] \in Config
    BY <1>1, ConfigAt
  <2>2. RightEntry(b, notes, last) /\ b \in Config /\ b.date \in {cs[k].date, NoDate}
    BY <2>1, CutConfigRight DEF RightConfigs
  <2> HIDE DEF cs
  <2>3. begun \in Seq(Config) /\ Len(begun) = k - 1 /\ \A j \in 1 .. k - 1 : begun[j] = cs[j]
    BY <1>1, <2>1
  <2> HIDE DEF begun
  <2>4. DOMAIN ds = 1 .. k /\ ds[k] = b /\ \A j \in 1 .. k - 1 : ds[j] = cs[j]
    BY <2>1, <2>2, <2>3
  <2> HIDE DEF ds
  <2>5. DOMAIN ds \subseteq DOMAIN cs /\ \A j \in DOMAIN ds : j = k \/ j \in 1 .. k - 1
    BY <1>1, <2>1, <2>4
  <2>6. RightConfigs(cs, notes, last)
    BY DEF cs
  <2>7. \A j \in DOMAIN ds : /\ RightEntry(ds[j], notes, last)
                             /\ ds[j].date \in {cs[j].date, NoDate}
    BY <2>2, <2>4, <2>5, <2>6 DEF RightConfigs
  <2>8. RightConfigs(ds, notes, last)
    BY <2>5, <2>6, <2>7, RightFewer
  <2> QED BY <2>8 DEF ds, begun
<1>4. \A ds \in CutConfigs(cs) : RightConfigs(ds, notes, last)
  <2> HIDE DEF cs
  <2> QED BY <1>2, <1>3 DEF CutConfigs
<1>5. \/ e = EmptyDocument \/ e = d
      \/ \E ds \in CutConfigs(cs) : e = [root |-> TRUE, configs |-> ds, whole |-> FALSE]
  BY DEF Cuts
<1> QED BY <1>2, <1>4, <1>5 DEF EmptyDocument
-----------------------------------------------------------------------------
(* Without one of its elements, a sequence has the other ones. *)
LEMMA Without ==
    ASSUME NEW S, NEW cs \in Seq(S), NEW k \in DOMAIN cs
    PROVE  LET left == SubSeq(cs, 1, k - 1) \o SubSeq(cs, k + 1, Len(cs))
           IN  /\ left \in Seq(S) /\ DOMAIN left = 1 .. Len(cs) - 1
               /\ \A j \in DOMAIN left : left[j] = cs[IF j < k THEN j ELSE j + 1]
<1> DEFINE c1 == SubSeq(cs, 1, k - 1)
           c2 == SubSeq(cs, k + 1, Len(cs))
<1>1. k \in 1 .. Len(cs) /\ Len(cs) \in Nat
  OBVIOUS
<1>2. /\ c1 \in Seq(S) /\ Len(c1) = k - 1
      /\ \A j \in 1 .. k - 1 : c1[j] = cs[j]
      /\ c2 \in Seq(S) /\ Len(c2) = Len(cs) - k
      /\ \A j \in 1 .. Len(cs) - k : c2[j] = cs[j + k]
  BY <1>1
<1> HIDE DEF c1, c2
<1>3. /\ c1 \o c2 \in Seq(S)
      /\ Len(c1 \o c2) = Len(c1) + Len(c2)
      /\ \A i \in 1 .. Len(c1) + Len(c2) :
             (c1 \o c2)[i] = IF i <= Len(c1) THEN c1[i] ELSE c2[i - Len(c1)]
  BY <1>2, ConcatProperties
<1>4. DOMAIN (c1 \o c2) = 1 .. Len(cs) - 1
  <2>1. \A s \in Seq(S) : DOMAIN s = 1 .. Len(s)
    OBVIOUS
  <2>2. Len(c1) + Len(c2) = Len(cs) - 1
    BY <1>1, <1>2
  <2> QED BY <1>3, <2>1, <2>2
<1>5. ASSUME NEW j \in 1 .. Len(cs) - 1
      PROVE  (c1 \o c2)[j] = cs[IF j < k THEN j ELSE j + 1]
  <2>1. j \in 1 .. Len(c1) + Len(c2)
    BY <1>1, <1>2
  <2>2. CASE j < k
    <3>1. j \in 1 .. k - 1 /\ j <= Len(c1)
      BY <1>1, <1>2, <2>2
    <3>2. (c1 \o c2)[j] = c1[j]
      BY <1>3, <2>1, <3>1
    <3> QED BY <1>2, <2>2, <3>1, <3>2
  <2>3. CASE ~(j < k)
    <3> DEFINE i == j - (k - 1)
    <3>1. i \in 1 .. Len(cs) - k /\ i + k = j + 1 /\ ~(j <= k - 1)
      BY <1>1, <2>3
    <3>2. (c1 \o c2)[j] = c2[i]
      BY <1>2, <1>3, <2>1, <3>1
    <3> HIDE DEF i
    <3> QED BY <1>2, <2>3, <3>1, <3>2
  <2> QED BY <2>2, <2>3
<1> QED BY <1>3, <1>4, <1>5 DEF c1, c2

(* effacerUneConfigEnregistree leaves the other configurations as they are. *)
LEMMA ErasedRight ==
    ASSUME NEW d \in Document, NEW date, NEW notes, NEW last,
           NEW r, r = effacerUneConfigEnregistree(d, date), r.ends = "saved"
    PROVE  /\ RightConfigs(d.configs, notes, last) => RightConfigs(r.doc.configs, notes, last)
           /\ \A other, ms : Exact(d.configs, notes, other, ms) =>
                             Exact(r.doc.configs, notes, other, ms)
<1> DEFINE cs == d.configs
           k == First(At(d, date))
           left == SubSeq(cs, 1, k - 1) \o SubSeq(cs, k + 1, Len(cs))
           e == [d EXCEPT !.configs = SubSeq(@, 1, k - 1) \o SubSeq(@, k + 1, Len(@))]
           at(j) == IF j < k THEN j ELSE j + 1
<1>1. r = Saved(e) /\ Holds(d, date)
  BY DEF effacerUneConfigEnregistree, Fatal, Unsaved
<1>2. cs \in Seq(Config) /\ k \in DOMAIN cs
  BY <1>1, PlaceOf DEF Document
<1>3. k \in 1 .. Len(cs) /\ Len(cs) \in Nat /\ DOMAIN cs = 1 .. Len(cs)
  <2> HIDE DEF k
  <2> QED BY <1>2
<1> HIDE DEF k
<1>4. /\ left \in Seq(Config) /\ DOMAIN left = 1 .. Len(cs) - 1
      /\ \A j \in DOMAIN left : left[j] = cs[at(j)]
  BY <1>2, Without
<1>5. r.doc.configs = left
  <2>1. e \in Document /\ e.configs = left
    BY <1>4 DEF Document
  <2> HIDE DEF e, left
  <2> QED BY <1>1, <2>1, SavedIs
<1> HIDE DEF left
<1>6. /\ \A j \in DOMAIN left : at(j) \in DOMAIN cs
      /\ \A i, j \in DOMAIN left : at(i) = at(j) => i = j
  <2>1. \A j \in DOMAIN left : j \in Int /\ 1 <= j /\ j <= Len(cs) - 1
    BY <1>3, <1>4
  <2>2. \A i, j \in Int : at(i) = at(j) => i = j
    BY <1>3
  <2>3. \A j \in DOMAIN left : at(j) \in 1 .. Len(cs)
    BY <1>3, <2>1
  <2> QED BY <1>3, <2>1, <2>2, <2>3
<1> HIDE DEF at
<1>7. ASSUME RightConfigs(cs, notes, last)
      PROVE  RightConfigs(left, notes, last)
  BY <1>4, <1>6, <1>7 DEF RightConfigs, Distinct
<1>8. ASSUME NEW other, NEW ms, Exact(cs, notes, other, ms)
      PROVE  Exact(left, notes, other, ms)
  BY <1>4, <1>6, <1>8 DEF Exact
<1> QED BY <1>5, <1>7, <1>8

(* creerConfig adds a configuration nobody is in. *)
LEMMA CreatedRight ==
    ASSUME NEW d \in Document, NEW date \in Dates, NEW notes, NEW last, date <= last,
           RightConfigs(d.configs, notes, last),
           \A k \in DOMAIN d.configs : d.configs[k].date # date,
           NEW r, r = creerConfig(d, date), r.ends = "saved"
    PROVE  /\ RightConfigs(r.doc.configs, notes, last)
           /\ Partly(r.doc.configs, date, <<>>)
           /\ \A ms : Exact(d.configs, notes, NoneRecorded, ms) =>
                      Exact(r.doc.configs, notes, date, <<>>)
           /\ r.doc.root /\ r.doc.whole
<1> DEFINE cs == d.configs
           c == [date |-> date, users |-> <<>>]
           e == [d EXCEPT !.configs = Append(@, c)]
           n == Len(cs) + 1
           ds == Append(cs, c)
<1>1. d.root /\ r = Saved(e)
  BY DEF creerConfig, Fatal
<1>2. c \in Config /\ c.date = date /\ c.users = <<>> /\ date # NoDate
  BY FileAssumption DEF Config
<1> HIDE DEF c
<1>3. cs \in Seq(Config)
  BY DEF Document
<1>4. e \in Document /\ e.configs = ds /\ e.root
  BY <1>1, <1>2, <1>3 DEF Document
<1>5. r.doc.configs = ds /\ r.doc.root /\ r.doc.whole
  <2> HIDE DEF e, ds
  <2> QED BY <1>1, <1>4, SavedIs
<1>6. /\ DOMAIN ds = 1 .. n /\ DOMAIN cs = 1 .. n - 1 /\ n \in Nat
      /\ ds[n] = c /\ \A k \in 1 .. n - 1 : ds[k] = cs[k]
  BY <1>2, <1>3
<1> HIDE DEF ds, n
<1>7. \A k \in DOMAIN ds : k = n \/ (k \in DOMAIN cs /\ ds[k] = cs[k] /\ ds[k].date # date)
  BY <1>6
<1>8. RightConfigs(ds, notes, last)
  <2>1. RightEntry(c, notes, last)
    BY <1>2, NobodyKnown DEF RightEntry, Complete
  <2>2. \A k \in DOMAIN ds : RightEntry(ds[k], notes, last)
    BY <1>6, <1>7, <2>1 DEF RightConfigs
  <2>3. Distinct(ds)
    BY <1>2, <1>6, <1>7 DEF RightConfigs, Distinct
  <2> QED BY <2>2, <2>3 DEF RightConfigs
<1>9. Partly(ds, date, <<>>)
  BY <1>2, <1>6, <1>7, NobodyKnown DEF Partly
<1>10. ASSUME NEW ms, Exact(cs, notes, NoneRecorded, ms)
       PROVE  Exact(ds, notes, date, <<>>)
  <2>1. ASSUME NEW k \in DOMAIN cs
        PROVE  /\ cs[k].date # NoDate /\ AddressesIn(cs[k].users) = notes[cs[k].date]
               /\ UsableFirst => cs[k].users # <<>>
    <3>1. ExactEntry(cs[k], notes, NoneRecorded, ms)
      BY <1>10, <2>1 DEF Exact
    <3>2. cs[k].date \in Dates \cup {NoDate} /\ 0 \notin Dates
      BY <1>3, ConfigAt DEF Dates
    <3> QED BY <3>1, <3>2 DEF ExactEntry, NoneRecorded
  <2>2. AddressesIn(<<>>) = <<>>
    BY DEF AddressesIn
  <2>3. ExactEntry(c, notes, date, <<>>)
    BY <1>2, <2>2 DEF ExactEntry
  <2>4. ASSUME NEW k \in DOMAIN ds
        PROVE  ExactEntry(ds[k], notes, date, <<>>)
    <3>1. CASE k = n
      BY <1>6, <2>3, <3>1
    <3>2. CASE k \in DOMAIN cs /\ ds[k] = cs[k] /\ ds[k].date # date
      BY <2>1, <3>2 DEF ExactEntry
    <3> QED BY <1>7, <3>1, <3>2
  <2> QED BY <2>4 DEF Exact
<1> QED BY <1>5, <1>8, <1>9, <1>10

(* The addresses of one user more. *)
LEMMA AddressesOneMore ==
    ASSUME NEW us \in Seq(User), NEW m \in Machines
    PROVE  /\ Append(us, FullUser(m)) \in Seq(User)
           /\ AddressesIn(Append(us, FullUser(m))) = Append(AddressesIn(us), m)
<1> DEFINE more == Append(us, FullUser(m))
           as == AddressesIn(us)
           longer == Append(as, m)
           Address == Machines \cup {NoAddress}
<1>1. FullUser(m) \in User /\ FullUser(m).ip = m
  BY DEF FullUser, User
<1>2. as \in Seq(Address) /\ Len(as) = Len(us) /\ \A k \in DOMAIN us : as[k] = us[k].ip
  BY AddressesInIs
<1>3. /\ more \in Seq(User) /\ Len(more) = Len(us) + 1 /\ more[Len(us) + 1] = FullUser(m)
      /\ DOMAIN us = 1 .. Len(us) /\ Len(us) \in Nat
      /\ \A k \in 1 .. Len(us) : more[k] = us[k]
  BY <1>1
<1>4. m \in Address
  OBVIOUS
<1> HIDE DEF as, Address
<1>5. /\ longer \in Seq(Address) /\ Len(longer) = Len(as) + 1 /\ longer[Len(as) + 1] = m
      /\ \A k \in 1 .. Len(as) : longer[k] = as[k]
  <2>1. \A s \in Seq(Address) : \A x \in Address :
            /\ Append(s, x) \in Seq(Address) /\ Len(Append(s, x)) = Len(s) + 1
            /\ Append(s, x)[Len(s) + 1] = x
            /\ \A k \in 1 .. Len(s) : Append(s, x)[k] = s[k]
    OBVIOUS
  <2> QED BY <1>2, <1>4, <2>1
<1> HIDE DEF more, longer
<1>6. /\ AddressesIn(more) \in Seq(Address) /\ Len(AddressesIn(more)) = Len(more)
      /\ \A k \in 1 .. Len(more) : AddressesIn(more)[k] = more[k].ip
  BY <1>3, AddressesInIs DEF Address
<1>7. \A k \in 1 .. Len(more) : AddressesIn(more)[k] = longer[k]
  <2>1. AddressesIn(more)[Len(us) + 1] = longer[Len(us) + 1]
    BY <1>1, <1>2, <1>3, <1>5, <1>6
  <2>2. ASSUME NEW k \in 1 .. Len(us)
        PROVE  AddressesIn(more)[k] = longer[k]
    <3>1. k \in 1 .. Len(more) /\ k \in 1 .. Len(as) /\ k \in DOMAIN us
      BY <1>2, <1>3
    <3> QED BY <1>2, <1>3, <1>5, <1>6, <3>1
  <2>3. \A k \in 1 .. Len(more) : k \in 1 .. Len(us) \/ k = Len(us) + 1
    BY <1>3
  <2> QED BY <2>1, <2>2, <2>3
<1>8. AddressesIn(more) = longer
  BY <1>2, <1>3, <1>5, <1>6, <1>7, SeqEqual
<1> QED BY <1>3, <1>8 DEF more, longer, as

(* s is the beginning of t. *)
IsBeginning(s, t) == Len(s) <= Len(t) /\ \A k \in 1 .. Len(s) : t[k] = s[k]

(* e is d with the configuration of this date extended from ms to more. *)
Extends(d, e, date, ms, more) ==
    /\ RightConfigs(e.configs, noted, clock)
    /\ Partly(e.configs, date, more)
    /\ Exact(d.configs, noted, date, ms) => Exact(e.configs, noted, date, more)
    /\ e.root = d.root /\ e.whole = d.root

(* ajouterUser puts the next machine in the configuration with the date. *)
LEMMA AddedRight ==
    ASSUME NEW d \in Document, NEW date \in Dates, NEW m \in Machines, m \notin Incomplete,
           noted \in Notes, NEW ms \in Seq(Machines),
           NEW more, more = Append(ms, m),
           IsBeginning(more, noted[date]),
           RightConfigs(d.configs, noted, clock), Partly(d.configs, date, ms),
           NEW r, r = ajouterUser(d, date, m), r.ends = "saved"
    PROVE  Extends(d, r.doc, date, ms, more)
<1> DEFINE cs == d.configs
           k == First(At(d, date))
           c == [cs[k] EXCEPT !.users = Append(@, FullUser(m))]
           e == [d EXCEPT !.configs[k].users = Append(@, FullUser(m))]
           ds == [cs EXCEPT ![k] = c]
           t == noted[date]
<1>1. r = Saved(e) /\ Holds(d, date)
  BY DEF ajouterUser, Fatal, Unsaved
<1>2. k \in DOMAIN cs /\ cs \in Seq(Config) /\ cs[k].date = date /\ date # NoDate
  BY <1>1, PlaceOf, FileAssumption DEF Document
<1> HIDE DEF k
<1>3. cs[k] \in Config /\ cs[k].users \in Seq(User)
  BY <1>2, ConfigAt
<1>4. c \in Config /\ c.date = date /\ c.users = Append(cs[k].users, FullUser(m))
  <2>1. c \in Config
    BY <1>3, OneMore
  <2> QED BY <1>2, <1>3, <2>1 DEF Config
<1>5. e = [d EXCEPT !.configs = ds]
  BY <1>2 DEF Document
<1> HIDE DEF c, e
<1>6. ds \in Seq(Config)
  BY <1>2, <1>4, Cutting
<1>7. e \in Document /\ e.configs = ds /\ e.root = d.root
  BY <1>5, <1>6 DEF Document
<1>8. r.doc.configs = ds /\ r.doc.root = d.root /\ r.doc.whole = d.root
  <2> HIDE DEF ds
  <2> QED BY <1>1, <1>7, SavedIs
<1>9. DOMAIN ds = DOMAIN cs /\ ds[k] = c /\ \A j \in DOMAIN cs : j # k => ds[j] = cs[j]
  BY <1>2
<1> HIDE DEF ds, cs
<1>10. \A j \in DOMAIN cs : j # k => cs[j].date # date
  BY <1>2 DEF RightConfigs, Distinct, cs
<1>11. SomeKnown(c.users, Append(ms, m))
  <2>1. SomeKnown(cs[k].users, ms)
    BY <1>2 DEF Partly, cs
  <2> QED BY <1>3, <1>4, <2>1, KnownOneMore
<1>12. c.users \in Seq(User) /\ t \in Seq(Machines) /\ Append(ms, m) \in Seq(Machines)
  <2>1. Append(ms, m) \in Seq(Machines)
    OBVIOUS
  <2> QED BY <1>4, <2>1 DEF Config, Notes
<1>13. SomeKnown(c.users, t)
  <2> HIDE DEF t
  <2>1. IsBeginning(Append(ms, m), t)
    BY DEF t
  <2> DEFINE longer == Append(ms, m)
  <2>2. longer \in Seq(Machines) /\ SomeKnown(c.users, longer) /\ IsBeginning(longer, t)
    BY <1>11, <1>12, <2>1
  <2> HIDE DEF longer
  <2> QED BY <1>12, <2>2, KnownAmongMore DEF IsBeginning
<1>14. RightConfigs(ds, noted, clock)
  <2>1. Complete(cs[k].users) => Complete(c.users)
    <3>1. FullUser(m).ip = m
      BY DEF FullUser
    <3>2. \A us \in Seq(User) : \A j \in DOMAIN Append(us, FullUser(m)) :
              Append(us, FullUser(m))[j] = FullUser(m)
                \/ (j \in DOMAIN us /\ Append(us, FullUser(m))[j] = us[j])
      OBVIOUS
    <3> QED BY <1>3, <1>4, <3>1, <3>2 DEF Complete
  <2>2. RightEntry(cs[k], noted, clock)
    BY <1>2 DEF RightConfigs, cs
  <2>3. RightEntry(c, noted, clock)
    BY <1>2, <1>4, <1>13, <2>1, <2>2 DEF RightEntry
  <2>4. \A j \in DOMAIN ds : RightEntry(ds[j], noted, clock)
    BY <1>9, <2>3 DEF RightConfigs, cs
  <2>5. \A j \in DOMAIN cs : ds[j].date = cs[j].date
    BY <1>2, <1>4, <1>9
  <2>6. Distinct(ds)
    BY <1>9, <2>5 DEF RightConfigs, Distinct, cs
  <2> QED BY <2>4, <2>6 DEF RightConfigs
<1>15. Partly(ds, date, Append(ms, m))
  BY <1>4, <1>9, <1>10, <1>11 DEF Partly
<1>16. ASSUME Exact(cs, noted, date, ms)
       PROVE  Exact(ds, noted, date, Append(ms, m))
  <2>1. ExactEntry(cs[k], noted, date, ms)
    BY <1>2, <1>16 DEF Exact
  <2>2. AddressesIn(c.users) = Append(ms, m)
    BY <1>2, <1>3, <1>4, <2>1, AddressesOneMore DEF ExactEntry
  <2>3. ExactEntry(c, noted, date, Append(ms, m))
    BY <1>2, <1>4, <2>2 DEF ExactEntry
  <2>4. ASSUME NEW j \in DOMAIN cs, j # k
        PROVE  ExactEntry(ds[j], noted, date, Append(ms, m))
    <3>1. ExactEntry(cs[j], noted, date, ms)
      BY <1>16 DEF Exact
    <3>2. ds[j] = cs[j] /\ cs[j].date # date
      BY <1>9, <1>10, <2>4
    <3> QED BY <3>1, <3>2 DEF ExactEntry
  <2> QED BY <1>9, <2>3, <2>4 DEF Exact
<1> QED BY <1>8, <1>14, <1>15, <1>16 DEF cs, Extends
-----------------------------------------------------------------------------
(***************************************************************************)
(* The inductive invariant.  noted does not change after TakeDate, so the  *)
(* one configuration that is being recorded is compared with the machines  *)
(* enregistrerConfigPresente has come to.                                  *)
(***************************************************************************)
Begun == SubSeq(config, 1, next - 1)
OpenDate == IF phase = "recording" THEN derniere_date ELSE NoneRecorded

FileSide ==
    /\ RightConfigs(file.configs, noted, clock)
    /\ phase = "dating" => \A k \in DOMAIN file.configs : file.configs[k].date # derniere_date
    /\ phase = "recording" => Partly(file.configs, derniere_date, Begun)
    /\ faults = 0 => /\ Exact(file.configs, noted, OpenDate, Begun)
                     /\ phase = "recording" => file.root /\ file.whole

(* enregistrerConfigPresente goes through what was noted under the date. *)
RecordSide ==
    /\ phase \in {"save", "dating", "recording"} => config # <<>>
    /\ phase \in {"dating", "recording"} =>
          /\ derniere_date = clock /\ noted[clock] = config
          /\ \A k \in DOMAIN config : config[k] \notin Incomplete
    /\ phase = "recording" => next \in 1 .. Len(config) + 1

(* The list box and config_choisie name only dates that were used. *)
ChoiceSide ==
    /\ \A k \in DOMAIN str : str[k] <= clock
    /\ config_choisie \in Dates => config_choisie <= clock /\ agreed = noted[config_choisie]
    /\ config_choisie = PresentList /\ phase \in {"down", "idle", "told"} => config \in {<<>>, agreed}
    /\ phase # "told" => addresses = <<>>
    /\ SentToAgreed

SavedInv == FileSide /\ RecordSide /\ ChoiceSide

Busy == {"dating", "recording"}

(* What the types say. *)
LEMMA MasterTypes ==
    ASSUME Inv
    PROVE  /\ file \in Document /\ file.configs \in Seq(Config) /\ faults \in Nat
           /\ phase \in Phases /\ str \in Seq(Dates) /\ clock \in 0 .. MaxDate /\ clock \in Nat
           /\ noted \in Notes /\ config \in Seq(Machines) /\ agreed \in Seq(Machines)
           /\ addresses \in Seq(Machines) /\ next \in Nat
           /\ phase \in Busy => derniere_date \in Dates
<1>1. file \in Document /\ faults \in 0 .. MaxFaults
  BY DEF Inv, FileInv, FileTypeOK
<1>2. WindowsTypeOK /\ DiscoveryTypeOK /\ Recording
  BY DEF Inv, Rest
<1> QED BY <1>1, <1>2, FileAssumption
        DEF Document, WindowsTypeOK, DiscoveryTypeOK, Recording, Notes, Busy

(* Exactness does not depend on what is being recorded when nothing is. *)
LEMMA ExactAny ==
    ASSUME NEW cs, NEW notes, NEW ms, NEW ns, cs \in Seq(Config),
           Exact(cs, notes, NoneRecorded, ms)
    PROVE  Exact(cs, notes, NoneRecorded, ns)
<1>1. \A k \in DOMAIN cs : cs[k].date # NoneRecorded \/ cs[k].date = NoDate
  BY ConfigAt DEF NoneRecorded, Dates
<1> QED BY <1>1 DEF Exact, ExactEntry

(* What the search found does not concern the file, *)
LEMMA FileAside ==
    ASSUME Inv, FileSide, UNCHANGED <<file, faults, clock, noted>>,
           phase \notin Busy, phase' \notin Busy
    PROVE  FileSide'
<1>1. OpenDate = NoneRecorded /\ OpenDate' = NoneRecorded
  BY DEF OpenDate, Busy
<1>2. faults' = 0 => Exact(file'.configs, noted', NoneRecorded, Begun')
  BY <1>1, MasterTypes, ExactAny DEF FileSide
<1> HIDE DEF OpenDate
<1> QED BY <1>1, <1>2 DEF FileSide, Busy

(* nor what was chosen. *)
LEMMA RecordAside ==
    ASSUME phase' \notin Busy, phase' = "save" => config' # <<>>
    PROVE  RecordSide'
  BY DEF RecordSide, Busy

(* Handlers that neither choose nor send leave what is chosen and agreed to. *)
LEMMA ChoiceAside ==
    ASSUME ChoiceSide, UNCHANGED <<str, config_choisie, agreed, addresses, clock, noted>>,
           faults' = 0 => faults = 0, phase # "told", phase' # "told",
           config_choisie = PresentList /\ phase' \in {"down", "idle"} => config' \in {<<>>, agreed}
    PROVE  ChoiceSide'
  BY DEF ChoiceSide, SentToAgreed, SomeOf

(* The three together. *)
LEMMA Aside ==
    ASSUME Inv, SavedInv,
           UNCHANGED <<fileVars, str, config_choisie, agreed, addresses, clock, noted>>,
           phase \notin Busy \cup {"told"}, phase' \notin Busy \cup {"told"},
           phase' = "save" => config' # <<>>,
           config_choisie = PresentList /\ phase' \in {"down", "idle"} => config' \in {<<>>, agreed}
    PROVE  SavedInv'
<1>1. FileSide'
  BY FileAside DEF SavedInv, fileVars
<1>2. RecordSide'
  BY RecordAside
<1>3. ChoiceSide'
  BY ChoiceAside DEF SavedInv, fileVars
<1> QED BY <1>1, <1>2, <1>3 DEF SavedInv

(* The process ends: the file may have been cut, but then there was a fault. *)
LEMMA SavedEnding ==
    ASSUME Inv, SavedInv, NEW b, Ends(b), RightConfigs(file'.configs, noted, clock),
           faults' = 0 => faults = 0 /\ file' = file /\ phase # "recording"
    PROVE  SavedInv'
<1>1. /\ phase' = "down" /\ UNCHANGED <<clock, noted>>
      /\ str' = <<>> /\ config_choisie' = NoChoice /\ config' = <<>>
      /\ addresses' = <<>> /\ agreed' = <<>>
  BY DEF Ends, AdminStarts
<1>2. OpenDate' = NoneRecorded
  BY <1>1 DEF OpenDate
<1>3. faults' = 0 => Exact(file'.configs, noted', NoneRecorded, Begun')
  <2> SUFFICES ASSUME faults' = 0
               PROVE  Exact(file.configs, noted, NoneRecorded, Begun')
    BY <1>1
  <2>1. Exact(file.configs, noted, OpenDate, Begun) /\ OpenDate = NoneRecorded
    BY DEF SavedInv, FileSide, OpenDate
  <2> QED BY <2>1, MasterTypes, ExactAny
<1> HIDE DEF OpenDate
<1>4. FileSide'
  BY <1>1, <1>2, <1>3 DEF FileSide
<1>5. RecordSide'
  BY <1>1, RecordAside DEF Busy
<1>6. SomeOf(<<>>, <<>>)
  <2>1. <<>> \in Seq(Machines)
    OBVIOUS
  <2> QED BY <2>1, SomeOfAll
<1>7. ChoiceSide'
  BY <1>1, <1>6, WindowsAssumption DEF ChoiceSide, SentToAgreed
<1> QED BY <1>4, <1>5, <1>7 DEF SavedInv
-----------------------------------------------------------------------------
(* A document with right configurations, if there is one to be saved. *)
Right(r) ==
    r.ends = "saved" => r.doc \in Document /\ RightConfigs(r.doc.configs, noted, clock)

(* LoadFile gives right configurations, *)
LEMMA LoadsRight ==
    ASSUME Inv, FileSide, NEW l \in Loads
    PROVE  /\ l.doc \in Document /\ RightConfigs(l.doc.configs, noted, clock)
           /\ l.cost \in Nat /\ (l.cost = 0 => l.doc = file)
<1>1. l.doc \in Document /\ ((l.doc = file /\ l.cost = 0) \/ (l.doc = EmptyDocument /\ l.cost = 1))
  BY LoadsTypes DEF Inv, Loads
<1>2. RightConfigs(<<>>, noted, clock)
  BY DEF RightConfigs, Distinct
<1> QED BY <1>1, <1>2 DEF FileSide, EmptyDocument

(* SaveFile writes some, *)
LEMMA SavesRight ==
    ASSUME Inv, FileSide, NEW l \in Loads, NEW r, Right(r), SaveFile(r, l.cost)
    PROVE  RightConfigs(file'.configs, noted, clock) /\ (faults' = 0 => faults = 0)
<1>1. l.cost \in Nat /\ faults \in Nat
  BY LoadsRight, MasterTypes
<1> QED BY <1>1 DEF SaveFile, Spend, Right, FileSide

(* and so every handler that calls a method keeps the invariant if the way it returns does. *)
LEMMA SavedCalling ==
    ASSUME Inv, SavedInv, NEW l \in Loads, NEW r, Right(r),
           phase = "recording" /\ faults = 0 /\ l.doc = file => r.ends # "dies",
           \/ SaveFile(r, l.cost) /\ SavedInv'
           \/ InterruptedSave(r, l.cost) /\ Ends(FALSE)
           \/ NullDereference(r, l.cost) /\ Ends(TRUE)
    PROVE  SavedInv'
<1>1. l.cost \in Nat /\ faults \in Nat /\ (l.cost = 0 => l.doc = file)
  BY LoadsRight, MasterTypes DEF SavedInv
<1>2. CASE InterruptedSave(r, l.cost) /\ Ends(FALSE)
  <2>1. faults' # 0
    BY <1>1, <1>2 DEF InterruptedSave, Spend
  <2>2. RightConfigs(file'.configs, noted, clock)
    BY <1>2, CutsRight DEF InterruptedSave, Right
  <2> QED BY <1>2, <2>1, <2>2, SavedEnding
<1>3. CASE NullDereference(r, l.cost) /\ Ends(TRUE)
  <2>1. file' = file /\ r.ends = "dies" /\ (faults' = 0 => faults = 0 /\ l.cost = 0)
    BY <1>1, <1>3 DEF NullDereference, Spend
  <2>2. RightConfigs(file'.configs, noted, clock)
    BY <2>1 DEF SavedInv, FileSide
  <2> QED BY <1>1, <1>3, <2>1, <2>2, SavedEnding
<1> QED BY <1>2, <1>3

(* A method that is called while nothing is recorded. *)
LEMMA FileReturns ==
    ASSUME Inv, FileSide, NEW l \in Loads, NEW r, Right(r), SaveFile(r, l.cost),
           r.ends = "saved" =>
               \A ms : Exact(l.doc.configs, noted, NoneRecorded, ms) =>
                       Exact(r.doc.configs, noted, NoneRecorded, ms),
           UNCHANGED <<clock, noted>>, phase \notin Busy, phase' \notin Busy
    PROVE  FileSide'
<1>1. RightConfigs(file'.configs, noted, clock) /\ (faults' = 0 => faults = 0)
  BY SavesRight
<1>2. OpenDate = NoneRecorded /\ OpenDate' = NoneRecorded
  BY DEF OpenDate, Busy
<1>3. faults' = 0 => Exact(file'.configs, noted', NoneRecorded, Begun')
  <2> SUFFICES ASSUME faults' = 0
               PROVE  Exact(file'.configs, noted, NoneRecorded, Begun')
    OBVIOUS
  <2>1. l.doc = file /\ (file' = file \/ (r.ends = "saved" /\ file' = r.doc))
    BY Unfailing DEF Inv
  <2>2. Exact(file.configs, noted, NoneRecorded, Begun')
    BY <1>1, <1>2, MasterTypes, ExactAny DEF FileSide
  <2> QED BY <2>1, <2>2
<1> HIDE DEF OpenDate
<1> QED BY <1>1, <1>2, <1>3 DEF FileSide, Busy
-----------------------------------------------------------------------------
(* Saving what was read, or not, changes no configuration. *)
LEMMA ReadsRight ==
    ASSUME Inv, FileSide, NEW l \in Loads, NEW date, NEW r,
           r = getUneConfigEnregistree(l.doc, date) \/ r = recuperer_AdrIPXML(l.doc, date)
    PROVE  /\ Right(r)
           /\ r.ends = "saved" => r.doc.configs = l.doc.configs
<1>1. r = Saved(l.doc) \/ r = Fatal
  BY DEF getUneConfigEnregistree, recuperer_AdrIPXML
<1>2. l.doc \in Document /\ RightConfigs(l.doc.configs, noted, clock)
  BY LoadsRight
<1>3. Fatal.ends # "saved"
  BY DEF Fatal
<1> QED BY <1>1, <1>2, <1>3, SavedIs DEF Right

(* OnBtnOKClicked: the date that is chosen was used. *)
LEMMA SavedOK ==
    ASSUME Inv, SavedInv, NEW date \in Dates, OnBtnOKClicked(date)
    PROVE  SavedInv'
<1> DEFINE r(l) == getUneConfigEnregistree(l.doc, date)
<1>1. PICK l \in Loads :
          \/ /\ SaveFile(r(l), l.cost)
             /\ \/ Choose(date, noted[date])
                \/ UNCHANGED <<config_choisie, agreed, shown>>
             /\ UNCHANGED <<discoveryVars, sendVars, clock, noted, died,
                            phase, str, derniere_date, next>>
          \/ InterruptedSave(r(l), l.cost) /\ Ends(FALSE)
          \/ NullDereference(r(l), l.cost) /\ Ends(TRUE)
  BY DEF OnBtnOKClicked, Call
<1>2. phase = "idle" /\ \E k \in DOMAIN str : str[k] = date
  BY DEF OnBtnOKClicked, Selects
<1>3. Right(r(l)) /\ (r(l).ends = "saved" => r(l).doc.configs = l.doc.configs)
  BY ReadsRight DEF SavedInv
<1> HIDE DEF r
<1>4. ASSUME SaveFile(r(l), l.cost),
             \/ Choose(date, noted[date])
             \/ UNCHANGED <<config_choisie, agreed, shown>>,
             UNCHANGED <<discoveryVars, sendVars, clock, noted, died,
                         phase, str, derniere_date, next>>
      PROVE  SavedInv'
  <2>1. FileSide'
    BY <1>2, <1>3, <1>4, FileReturns DEF SavedInv, Busy
  <2>2. RecordSide'
    BY <1>2, <1>4, RecordAside DEF Busy
  <2>3. UNCHANGED <<config, addresses, str, clock, noted, phase>> /\ (faults' = 0 => faults = 0)
    BY <1>3, <1>4, SavesRight DEF SavedInv, discoveryVars, sendVars
  <2>4. CASE Choose(date, noted[date])
    <3>1. config_choisie' = date /\ agreed' = noted[date] /\ date # PresentList
      BY <2>4, WindowsAssumption DEF Choose
    <3>2. addresses = <<>> /\ noted[date] \in Seq(Machines) /\ <<>> \in Seq(Machines)
      BY <1>2, MasterTypes DEF SavedInv, ChoiceSide, Notes
    <3>3. SomeOf(<<>>, noted[date])
      BY <3>2, SomeOfAll
    <3>4. date <= clock
      BY <1>2 DEF SavedInv, ChoiceSide
    <3>5. ChoiceSide'
      BY <1>2, <2>3, <3>1, <3>2, <3>3, <3>4 DEF SavedInv, ChoiceSide, SentToAgreed
    <3> QED BY <2>1, <2>2, <3>5 DEF SavedInv
  <2>5. CASE UNCHANGED <<config_choisie, agreed, shown>>
    <3>1. ChoiceSide'
      BY <1>2, <2>3, <2>5, ChoiceAside DEF SavedInv, ChoiceSide
    <3> QED BY <2>1, <2>2, <3>1 DEF SavedInv
  <2> QED BY <1>4, <2>4, <2>5
<1>5. phase # "recording"
  BY <1>2
<1> QED BY <1>1, <1>3, <1>4, <1>5, SavedCalling

(* OnBtnConsulterClicked. *)
LEMMA SavedConsulter ==
    ASSUME Inv, SavedInv, NEW date \in Dates, OnBtnConsulterClicked(date)
    PROVE  SavedInv'
<1> DEFINE r(l) == getUneConfigEnregistree(l.doc, date)
<1>1. PICK l \in Loads :
          \/ /\ SaveFile(r(l), l.cost)
             /\ UNCHANGED <<discoveryVars, masterVars, sendVars, ghostVars>>
          \/ InterruptedSave(r(l), l.cost) /\ Ends(FALSE)
          \/ NullDereference(r(l), l.cost) /\ Ends(TRUE)
  BY DEF OnBtnConsulterClicked, Call
<1>2. phase = "idle"
  BY DEF OnBtnConsulterClicked, Selects
<1>3. Right(r(l)) /\ (r(l).ends = "saved" => r(l).doc.configs = l.doc.configs)
  BY ReadsRight DEF SavedInv
<1> HIDE DEF r
<1>4. ASSUME SaveFile(r(l), l.cost), UNCHANGED <<discoveryVars, masterVars, sendVars, ghostVars>>
      PROVE  SavedInv'
  <2>0. UNCHANGED <<phase, str, config_choisie, agreed, addresses, clock, noted, config>>
    BY <1>4 DEF discoveryVars, masterVars, sendVars, ghostVars
  <2>1. FileSide'
    BY <1>2, <1>3, <1>4, <2>0, FileReturns DEF SavedInv, Busy
  <2>2. RecordSide'
    BY <1>2, <2>0, RecordAside DEF Busy
  <2>3. faults' = 0 => faults = 0
    BY <1>3, <1>4, SavesRight DEF SavedInv
  <2>4. ChoiceSide'
    BY <1>2, <2>0, <2>3, ChoiceAside DEF SavedInv, ChoiceSide
  <2> QED BY <2>1, <2>2, <2>4 DEF SavedInv
<1>5. phase # "recording"
  BY <1>2
<1> QED BY <1>1, <1>3, <1>4, <1>5, SavedCalling

(* OnBtnEffacerClicked: the configurations that are left, and the dates, are the same. *)
LEMMA SavedEffacer ==
    ASSUME Inv, SavedInv, NEW date \in Dates, OnBtnEffacerClicked(date)
    PROVE  SavedInv'
<1> DEFINE r(l) == effacerUneConfigEnregistree(l.doc, date)
<1>1. PICK l \in Loads :
          \/ /\ SaveFile(r(l), l.cost)
             /\ str' = Removed(str, date)
             /\ UNCHANGED <<discoveryVars, sendVars, ghostVars,
                            phase, shown, config_choisie, derniere_date, next>>
          \/ InterruptedSave(r(l), l.cost) /\ Ends(FALSE)
          \/ NullDereference(r(l), l.cost) /\ Ends(TRUE)
  BY DEF OnBtnEffacerClicked, Call
<1>2. phase = "idle" /\ \E k \in DOMAIN str : str[k] = date
  BY DEF OnBtnEffacerClicked, Selects
<1>3. /\ Right(r(l))
      /\ r(l).ends = "saved" =>
             \A other, ms : Exact(l.doc.configs, noted, other, ms) =>
                            Exact(r(l).doc.configs, noted, other, ms)
  <2>1. l.doc \in Document /\ RightConfigs(l.doc.configs, noted, clock)
    BY LoadsRight DEF SavedInv
  <2>2. Harmless(l.doc, r(l))
    BY <2>1, Erasing
  <2> QED BY <2>1, <2>2, ErasedRight DEF Right, Harmless
<1> HIDE DEF r
<1>4. ASSUME SaveFile(r(l), l.cost), str' = Removed(str, date),
             UNCHANGED <<discoveryVars, sendVars, ghostVars,
                         phase, shown, config_choisie, derniere_date, next>>
      PROVE  SavedInv'
  <2>0. UNCHANGED <<phase, config_choisie, agreed, addresses, clock, noted, config>>
    BY <1>4 DEF discoveryVars, sendVars, ghostVars
  <2>1. FileSide'
    BY <1>2, <1>3, <1>4, <2>0, FileReturns DEF SavedInv, Busy
  <2>2. RecordSide'
    BY <1>2, <2>0, RecordAside DEF Busy
  <2>3. faults' = 0 => faults = 0
    BY <1>3, <1>4, SavesRight DEF SavedInv
  <2>4. \A k \in DOMAIN str' : str'[k] <= clock
    <3> DEFINE Used == {x \in Dates : x <= clock}
               K == {j \in DOMAIN str : str[j] = date}
    <3>1. str \in Seq(Dates) /\ \A k \in DOMAIN str : str[k] \in Used
      <4>1. str \in Seq(Dates)
        BY MasterTypes
      <4>2. \A k \in DOMAIN str : str[k] \in Dates
        BY <4>1
      <4> QED BY <4>1, <4>2 DEF SavedInv, ChoiceSide
    <3> HIDE DEF Used
    <3>2. str \in Seq(Used)
      BY <3>1
    <3>3. K # {} /\ K \subseteq Nat
      BY <1>2, <3>1
    <3>4. First(K) \in DOMAIN str
      BY <3>3, FirstIs
    <3> HIDE DEF K
    <3>5. SubSeq(str, 1, First(K) - 1) \o SubSeq(str, First(K) + 1, Len(str)) \in Seq(Used)
      BY <3>2, <3>4, Cutting
    <3>6. str' \in Seq(Used)
      BY <1>4, <3>5 DEF Removed, K
    <3>7. \A k \in DOMAIN str' : str'[k] \in Used
      BY <3>6
    <3> QED BY <3>7 DEF Used
  <2>5. ChoiceSide'
    BY <1>2, <2>0, <2>3, <2>4 DEF SavedInv, ChoiceSide, SentToAgreed, SomeOf
  <2> QED BY <2>1, <2>2, <2>5 DEF SavedInv
<1>5. phase # "recording"
  BY <1>2
<1> QED BY <1>1, <1>3, <1>4, <1>5, SavedCalling

(* OnBtnEffacerToutClicked. *)
LEMMA SavedEffacerTout ==
    ASSUME Inv, SavedInv, OnBtnEffacerToutClicked
    PROVE  SavedInv'
<1> DEFINE r(l) == effacerToutesLesConfig(l.doc)
<1>1. PICK l \in Loads :
          \/ /\ SaveFile(r(l), l.cost)
             /\ str' = <<>>
             /\ UNCHANGED <<discoveryVars, sendVars, ghostVars,
                            phase, shown, config_choisie, derniere_date, next>>
          \/ InterruptedSave(r(l), l.cost) /\ Ends(FALSE)
          \/ NullDereference(r(l), l.cost) /\ Ends(TRUE)
  BY DEF OnBtnEffacerToutClicked, Call
<1>2. phase = "idle"
  BY DEF OnBtnEffacerToutClicked
<1>3. Right(r(l)) /\ r(l).doc.configs = <<>>
  <2>1. BlankDocument \in Document /\ BlankDocument.configs = <<>>
    BY DEF BlankDocument, Document
  <2>2. r(l).doc \in Document /\ r(l).doc.configs = <<>>
    BY <2>1, SavedIs DEF effacerToutesLesConfig
  <2> QED BY <2>2 DEF Right, RightConfigs, Distinct
<1> HIDE DEF r
<1>4. ASSUME SaveFile(r(l), l.cost), str' = <<>>,
             UNCHANGED <<discoveryVars, sendVars, ghostVars,
                         phase, shown, config_choisie, derniere_date, next>>
      PROVE  SavedInv'
  <2>0. UNCHANGED <<phase, config_choisie, agreed, addresses, clock, noted, config>>
    BY <1>4 DEF discoveryVars, sendVars, ghostVars
  <2>1. \A ms : Exact(r(l).doc.configs, noted, NoneRecorded, ms)
    BY <1>3 DEF Exact
  <2>2. FileSide'
    BY <1>2, <1>3, <1>4, <2>0, <2>1, FileReturns DEF SavedInv, Busy
  <2>3. RecordSide'
    BY <1>2, <2>0, RecordAside DEF Busy
  <2>4. faults' = 0 => faults = 0
    BY <1>3, <1>4, SavesRight DEF SavedInv
  <2>5. \A k \in DOMAIN str' : str'[k] <= clock
    BY <1>4
  <2>6. SentToAgreed'
    BY <2>0, <2>4 DEF SavedInv, ChoiceSide, SentToAgreed, SomeOf
  <2>7. ChoiceSide'
    BY <1>2, <2>0, <2>5, <2>6 DEF SavedInv, ChoiceSide
  <2> QED BY <2>2, <2>3, <2>7 DEF SavedInv
<1>5. phase # "recording"
  BY <1>2
<1> QED BY <1>1, <1>3, <1>4, <1>5, SavedCalling

(* recuperer_AdrIPXML gives some of the machines noted under the date, or all without a fault. *)
LEMMA StoredAddresses ==
    ASSUME NEW d \in Document, NEW date \in Dates, NEW notes \in Notes, NEW last,
           RightConfigs(d.configs, notes, last), recuperer_AdrIPXML(d, date) # Fatal
    PROVE  /\ SomeOf(AddressesOf(d, date), notes[date])
           /\ \A ms : Exact(d.configs, notes, NoneRecorded, ms) =>
                          AddressesOf(d, date) \in {<<>>, notes[date]}
<1> DEFINE us == UsersOf(d, date)
           k == First(At(d, date))
<1>1. us \in Seq(User) /\ \A j \in DOMAIN us : us[j].ip # NoAddress
  BY UsersTypes DEF recuperer_AdrIPXML
<1>2. AddressesOf(d, date) = AddressesIn(us)
  BY DEF AddressesOf, AddressesIn
<1>3. notes[date] \in Seq(Machines) /\ date # NoDate /\ date # NoneRecorded
  BY FileAssumption DEF Notes, Dates, NoneRecorded
<1>4. CASE Holds(d, date)
  <2>1. k \in DOMAIN d.configs /\ d.configs[k].date = date /\ us = d.configs[k].users
    BY <1>4, PlaceOf DEF UsersOf
  <2> HIDE DEF us, k
  <2>2. SomeKnown(us, notes[date])
    BY <1>3, <2>1 DEF RightConfigs, RightEntry
  <2>3. ASSUME NEW ms, Exact(d.configs, notes, NoneRecorded, ms)
        PROVE  AddressesIn(us) = notes[date]
    BY <1>3, <2>1, <2>3 DEF Exact, ExactEntry
  <2> QED BY <1>1, <1>2, <2>2, <2>3, AddressesKnown
<1>5. CASE ~Holds(d, date)
  <2>1. AddressesOf(d, date) = <<>>
    BY <1>2, <1>5 DEF UsersOf, AddressesIn
  <2>2. <<>> \in Seq(Machines)
    OBVIOUS
  <2> QED BY <1>3, <2>1, <2>2, SomeOfAll
<1> QED BY <1>4, <1>5

(* OnSend to a configuration of the file. *)
LEMMA SavedSends ==
    ASSUME Inv, SavedInv, NEW v \in Videos, SendToStored(v)
    PROVE  SavedInv'
<1> DEFINE r(l) == recuperer_AdrIPXML(l.doc, config_choisie)
<1>1. PICK l \in Loads :
          \/ /\ SaveFile(r(l), l.cost)
             /\ tftpSend(AddressesOf(l.doc, config_choisie), v)
             /\ UNCHANGED <<ghostVars, shown, str, config_choisie, derniere_date, next>>
          \/ InterruptedSave(r(l), l.cost) /\ Ends(FALSE)
          \/ NullDereference(r(l), l.cost) /\ Ends(TRUE)
  BY DEF SendToStored, Call
<1>2. phase = "idle" /\ config_choisie \in Dates /\ config_choisie # PresentList
  BY WindowsAssumption DEF SendToStored
<1>3. Right(r(l)) /\ (r(l).ends = "saved" => r(l).doc.configs = l.doc.configs)
  BY ReadsRight DEF SavedInv
<1>4. ASSUME SaveFile(r(l), l.cost)
      PROVE  r(l) # Fatal
  BY <1>4 DEF SaveFile, Fatal
<1>5. ASSUME SaveFile(r(l), l.cost), tftpSend(AddressesOf(l.doc, config_choisie), v),
             UNCHANGED <<ghostVars, shown, str, config_choisie, derniere_date, next>>
      PROVE  SavedInv'
  <2>0. /\ UNCHANGED <<str, config_choisie, agreed, clock, noted, config>>
        /\ phase' = "told" /\ addresses' = AddressesOf(l.doc, config_choisie)
    BY <1>5 DEF tftpSend, ghostVars
  <2>1. FileSide'
    <3> HIDE DEF r
    <3> QED BY <1>2, <1>3, <1>5, <2>0, FileReturns DEF SavedInv, Busy
  <2>2. RecordSide'
    BY <2>0, RecordAside DEF Busy
  <2>3. agreed = noted[config_choisie]
    BY <1>2 DEF SavedInv, ChoiceSide
  <2>4. /\ SomeOf(addresses', agreed)
        /\ \A ms : Exact(l.doc.configs, noted, NoneRecorded, ms) => addresses' \in {<<>>, agreed}
    <3>1. l.doc \in Document /\ RightConfigs(l.doc.configs, noted, clock) /\ noted \in Notes
      BY LoadsRight, MasterTypes DEF SavedInv
    <3> QED BY <1>2, <1>4, <1>5, <2>0, <2>3, <3>1, StoredAddresses
  <2>5. ASSUME faults' = 0
        PROVE  addresses' \in {<<>>, agreed}
    <3>1. l.doc = file /\ faults = 0
      <4> HIDE DEF r
      <4> QED BY <1>5, <2>5, Unfailing DEF Inv
    <3>2. Exact(file.configs, noted, NoneRecorded, Begun)
      BY <1>2, <3>1 DEF SavedInv, FileSide, OpenDate
    <3> QED BY <2>4, <3>1, <3>2
  <2>6. ChoiceSide'
    BY <1>2, <2>0, <2>4, <2>5 DEF SavedInv, ChoiceSide, SentToAgreed
  <2> QED BY <2>1, <2>2, <2>6 DEF SavedInv
<1> HIDE DEF r
<1>6. phase # "recording"
  BY <1>2
<1> QED BY <1>1, <1>3, <1>5, <1>6, SavedCalling
-----------------------------------------------------------------------------
(* What RecordSide says of the date and the machines of a recording. *)
LEMMA Recordable ==
    ASSUME Inv, SavedInv, phase \in Busy
    PROVE  /\ derniere_date \in Dates /\ derniere_date <= clock
           /\ noted[derniere_date] = config /\ config \in Seq(Machines) /\ config # <<>>
           /\ phase = "recording" => next \in 1 .. Len(config) + 1
  BY MasterTypes DEF SavedInv, RecordSide, Busy

(* CreateConfig. *)
LEMMA SavedCreates ==
    ASSUME Inv, SavedInv, CreateConfig
    PROVE  SavedInv'
<1> DEFINE r(l) == creerConfig(l.doc, derniere_date)
<1>1. PICK l \in Loads :
          \/ /\ SaveFile(r(l), l.cost)
             /\ next' = 1 /\ phase' = "recording"
             /\ UNCHANGED <<discoveryVars, sendVars, ghostVars,
                            shown, str, config_choisie, derniere_date>>
          \/ InterruptedSave(r(l), l.cost) /\ Ends(FALSE)
          \/ NullDereference(r(l), l.cost) /\ Ends(TRUE)
  BY DEF CreateConfig, Call
<1>2. phase = "dating" /\ phase \in Busy
  BY DEF CreateConfig, Busy
<1>3. /\ derniere_date \in Dates /\ derniere_date <= clock
      /\ config \in Seq(Machines) /\ config # <<>>
  BY <1>2, Recordable
<1>4. \A k \in DOMAIN l.doc.configs : l.doc.configs[k].date # derniere_date
  BY <1>2 DEF SavedInv, FileSide, Loads, EmptyDocument
<1>5. l.doc \in Document /\ RightConfigs(l.doc.configs, noted, clock)
  BY LoadsRight DEF SavedInv
<1>6. ASSUME r(l).ends = "saved"
      PROVE  /\ RightConfigs(r(l).doc.configs, noted, clock)
             /\ Partly(r(l).doc.configs, derniere_date, <<>>)
             /\ \A ms : Exact(l.doc.configs, noted, NoneRecorded, ms) =>
                        Exact(r(l).doc.configs, noted, derniere_date, <<>>)
             /\ r(l).doc.root /\ r(l).doc.whole
  BY <1>3, <1>4, <1>5, <1>6, CreatedRight
<1>7. Right(r(l))
  <2>1. Harmless(l.doc, r(l))
    BY <1>3, <1>5, Creating
  <2> QED BY <1>6, <2>1 DEF Right, Harmless
<1>8. r(l).ends # "unsaved"
  BY DEF creerConfig, Saved, Fatal
<1> HIDE DEF r
<1>9. ASSUME SaveFile(r(l), l.cost), next' = 1, phase' = "recording",
             UNCHANGED <<discoveryVars, sendVars, ghostVars,
                         shown, str, config_choisie, derniere_date>>
      PROVE  SavedInv'
  <2>0. UNCHANGED <<str, config_choisie, agreed, addresses, clock, noted, config, derniere_date>>
    BY <1>9 DEF discoveryVars, sendVars, ghostVars
  <2>1. RightConfigs(file'.configs, noted, clock) /\ (faults' = 0 => faults = 0)
    BY <1>7, <1>9, SavesRight DEF SavedInv
  <2>2. Begun' = <<>> /\ OpenDate' = derniere_date
    <3>1. SubSeq(config, 1, 1 - 1) = <<>>
      BY <1>3
    <3> QED BY <1>9, <2>0, <3>1 DEF Begun, OpenDate
  <2>3. Partly(file'.configs, derniere_date, <<>>)
    <3>1. Partly(file.configs, derniere_date, <<>>)
      BY <1>2 DEF SavedInv, FileSide, Partly
    <3>2. file' = file \/ (r(l).ends = "saved" /\ file' = r(l).doc)
      BY <1>9 DEF SaveFile
    <3> QED BY <1>6, <3>1, <3>2
  <2>4. ASSUME faults' = 0
        PROVE  Exact(file'.configs, noted, derniere_date, <<>>) /\ file'.root /\ file'.whole
    <3>1. faults = 0 /\ l.doc = file /\ r(l).ends = "saved" /\ file' = r(l).doc
      BY <1>8, <1>9, <2>4, Unfailing DEF Inv
    <3>2. Exact(file.configs, noted, NoneRecorded, Begun)
      BY <1>2, <3>1 DEF SavedInv, FileSide, OpenDate
    <3> QED BY <1>6, <3>1, <3>2
  <2>5. FileSide'
    BY <1>9, <2>0, <2>1, <2>2, <2>3, <2>4 DEF FileSide
  <2>6. RecordSide'
    <3>1. next' \in 1 .. Len(config) + 1
      BY <1>3, <1>9
    <3> QED BY <1>2, <1>9, <2>0, <3>1 DEF SavedInv, RecordSide
  <2>7. ChoiceSide'
    BY <1>2, <1>9, <2>0, <2>1, ChoiceAside DEF SavedInv
  <2> QED BY <2>5, <2>6, <2>7 DEF SavedInv
<1>10. phase # "recording"
  BY <1>2
<1> QED BY <1>1, <1>7, <1>9, <1>10, SavedCalling

(* The next machine makes a longer beginning of what was found. *)
LEMMA BeginningGrows ==
    ASSUME NEW t \in Seq(Machines), NEW n \in 1 .. Len(t)
    PROVE  /\ SubSeq(t, 1, n - 1) \in Seq(Machines)
           /\ SubSeq(t, 1, n) = Append(SubSeq(t, 1, n - 1), t[n])
           /\ IsBeginning(SubSeq(t, 1, n), t)
<1> DEFINE b == SubSeq(t, 1, n - 1)
<1>1. b \in Seq(Machines) /\ t[n] \in Machines
  OBVIOUS
<1>2. Len(SubSeq(t, 1, n)) = n /\ \A k \in 1 .. n : SubSeq(t, 1, n)[k] = t[k]
  OBVIOUS
<1>3. SubSeq(t, 1, n) = b \o <<t[n]>>
  BY SubSeqRecursiveSecond
<1>4. Append(b, t[n]) = b \o <<t[n]>>
  <2> HIDE DEF b
  <2> QED BY <1>1, AppendIsConcat
<1> QED BY <1>1, <1>2, <1>3, <1>4 DEF IsBeginning

(* What has been recorded is a beginning of what will have been. *)
LEMMA KnownLater ==
    ASSUME NEW us \in Seq(User), NEW t \in Seq(Machines),
           NEW n \in 0 .. Len(t), NEW i \in 0 .. Len(t), n <= i, SomeKnown(us, SubSeq(t, 1, n))
    PROVE  SomeKnown(us, SubSeq(t, 1, i))
<1> DEFINE s == SubSeq(t, 1, n)
           u == SubSeq(t, 1, i)
<1>1. /\ s \in Seq(Machines) /\ u \in Seq(Machines) /\ Len(s) = n /\ Len(u) = i
      /\ \A k \in 1 .. n : s[k] = t[k]
      /\ \A k \in 1 .. i : u[k] = t[k]
  OBVIOUS
<1>2. SomeKnown(us, s)
  OBVIOUS
<1> HIDE DEF s, u
<1>3. \A k \in 1 .. Len(s) : u[k] = s[k]
  BY <1>1
<1>4. SomeKnown(us, u)
  BY <1>1, <1>2, <1>3, KnownAmongMore
<1> QED BY <1>4 DEF u

(* Without a fault an iteration finds no missing attribute. *)
LEMMA AddingLives ==
    ASSUME NEW d \in Document, NEW date, NEW m, NEW notes, NEW other, NEW ms,
           Exact(d.configs, notes, other, ms), NEW r, r = ajouterUser(d, date, m)
    PROVE  r.ends # "dies"
<1>1. At(d, NoDate) = {}
  BY DEF Exact, ExactEntry, At
<1>2. ~MeetsNull(d, date)
  BY <1>1 DEF MeetsNull
<1> QED BY <1>2 DEF ajouterUser, Unsaved, Saved

(* What an iteration of enregistrerConfigPresente does to the document it has loaded. *)
LEMMA Iteration ==
    ASSUME Inv, SavedInv, phase = "recording", next <= Len(config), NEW l \in Loads,
           NEW r, r = ajouterUser(l.doc, derniere_date, config[next])
    PROVE  /\ Right(r)
           /\ r.ends = "saved" =>
                  /\ l.doc.whole /\ r.doc.root = l.doc.root /\ r.doc.whole = l.doc.root
                  /\ Partly(r.doc.configs, derniere_date, SubSeq(config, 1, next))
                  /\ Exact(l.doc.configs, noted, derniere_date, Begun) =>
                         Exact(r.doc.configs, noted, derniere_date, SubSeq(config, 1, next))
<1> DEFINE m == config[next]
<1>1. /\ derniere_date \in Dates /\ noted[derniere_date] = config /\ config \in Seq(Machines)
      /\ next \in 1 .. Len(config) + 1 /\ noted \in Notes
  BY Recordable, MasterTypes DEF Busy
<1>2. next \in 1 .. Len(config) /\ next \in DOMAIN config
  BY <1>1
<1>3. m \in Machines /\ m \notin Incomplete
  BY <1>1, <1>2 DEF SavedInv, RecordSide
<1>4. /\ Begun \in Seq(Machines) /\ SubSeq(config, 1, next) = Append(Begun, m)
      /\ IsBeginning(Append(Begun, m), config)
  BY <1>1, <1>2, BeginningGrows DEF Begun
<1>5. l.doc \in Document /\ RightConfigs(l.doc.configs, noted, clock)
  BY LoadsRight DEF SavedInv
<1>6. Partly(l.doc.configs, derniere_date, Begun)
  BY DEF SavedInv, FileSide, Loads, EmptyDocument, Partly
<1>7. Harmless(l.doc, r)
  BY <1>3, <1>5, Adding
<1> HIDE DEF m, Begun
<1>8. ASSUME r.ends = "saved"
      PROVE  /\ RightConfigs(r.doc.configs, noted, clock)
             /\ Partly(r.doc.configs, derniere_date, Append(Begun, m))
             /\ Exact(l.doc.configs, noted, derniere_date, Begun) =>
                    Exact(r.doc.configs, noted, derniere_date, Append(Begun, m))
             /\ r.doc.root = l.doc.root /\ r.doc.whole = l.doc.root
  <2>1. r = ajouterUser(l.doc, derniere_date, m)
    BY DEF m
  <2> DEFINE more == Append(Begun, m)
  <2>2. more = Append(Begun, m) /\ IsBeginning(more, noted[derniere_date])
    BY <1>1, <1>4
  <2>3. Begun \in Seq(Machines)
    BY <1>4
  <2> DEFINE d == l.doc
  <2>4. /\ d \in Document /\ RightConfigs(d.configs, noted, clock)
        /\ Partly(d.configs, derniere_date, Begun) /\ r = ajouterUser(d, derniere_date, m)
    BY <1>5, <1>6, <2>1
  <2>5. derniere_date \in Dates /\ noted \in Notes
    BY <1>1
  <2> HIDE DEF more, d
  <2>6. Extends(d, r.doc, derniere_date, Begun, more)
    BY <1>3, <1>8, <2>2, <2>3, <2>4, <2>5, AddedRight
  <2> QED BY <2>6 DEF Extends, more, d
<1>9. r.ends = "saved" => l.doc.whole
  BY DEF ajouterUser, Fatal, Unsaved
<1> QED BY <1>4, <1>7, <1>8, <1>9 DEF Right, Harmless

(* RecordUser: if nothing was saved, what is in the file is still a part of what was found. *)
LEMMA SavedRecords ==
    ASSUME Inv, SavedInv, RecordUser
    PROVE  SavedInv'
<1> DEFINE r(l) == ajouterUser(l.doc, derniere_date, config[next])
           grown == SubSeq(config, 1, next)
<1>1. PICK l \in Loads :
          \/ /\ SaveFile(r(l), l.cost)
             /\ next' = IF ~l.doc.whole THEN Len(config) + 1 ELSE next + 1
             /\ UNCHANGED <<discoveryVars, sendVars, ghostVars,
                            phase, shown, str, config_choisie, derniere_date>>
          \/ InterruptedSave(r(l), l.cost) /\ Ends(FALSE)
          \/ NullDereference(r(l), l.cost) /\ Ends(TRUE)
  BY DEF RecordUser, Call
<1>2. phase = "recording" /\ phase \in Busy /\ next <= Len(config)
  BY DEF RecordUser, Busy
<1>3. /\ derniere_date \in Dates /\ config \in Seq(Machines)
      /\ next \in 1 .. Len(config) + 1 /\ Len(config) \in Nat
  BY <1>2, Recordable
<1>4. /\ Right(r(l))
      /\ r(l).ends = "saved" =>
             /\ l.doc.whole /\ r(l).doc.root = l.doc.root /\ r(l).doc.whole = l.doc.root
             /\ Partly(r(l).doc.configs, derniere_date, grown)
             /\ Exact(l.doc.configs, noted, derniere_date, Begun) =>
                    Exact(r(l).doc.configs, noted, derniere_date, grown)
  <2> HIDE DEF r, grown
  <2> QED BY <1>2, Iteration DEF r, grown
<1>5. faults = 0 => /\ Exact(file.configs, noted, derniere_date, Begun)
                    /\ file.root /\ file.whole
  BY <1>2 DEF SavedInv, FileSide, OpenDate
<1>6. ASSUME faults = 0, l.doc = file
      PROVE  r(l).ends # "dies"
  <2>1. Exact(l.doc.configs, noted, derniere_date, Begun)
    BY <1>5, <1>6
  <2>2. l.doc \in Document
    BY LoadsRight DEF SavedInv
  <2> DEFINE m == config[next]
             q == r(l)
  <2>3. q = ajouterUser(l.doc, derniere_date, m)
    OBVIOUS
  <2> HIDE DEF r, m, q, Begun
  <2>4. q.ends # "dies"
    BY <2>1, <2>2, <2>3, AddingLives
  <2> QED BY <2>4 DEF q
<1>7. l.doc = file /\ file.whole /\ r(l).ends = "unsaved" => ~Holds(file, derniere_date)
  BY DEF ajouterUser, Fatal, Saved
<1> HIDE DEF r, grown
<1>8. ASSUME SaveFile(r(l), l.cost),
             next' = IF ~l.doc.whole THEN Len(config) + 1 ELSE next + 1,
             UNCHANGED <<discoveryVars, sendVars, ghostVars,
                         phase, shown, str, config_choisie, derniere_date>>
      PROVE  SavedInv'
  <2>0. UNCHANGED <<phase, str, config_choisie, agreed, addresses, clock, noted, config,
                    derniere_date>>
    BY <1>8 DEF discoveryVars, sendVars, ghostVars
  <2>1. RightConfigs(file'.configs, noted, clock) /\ (faults' = 0 => faults = 0)
    BY <1>4, <1>8, SavesRight DEF SavedInv
  <2>2. /\ next' \in 1 .. Len(config) + 1 /\ next' - 1 \in 0 .. Len(config)
        /\ next - 1 \in 0 .. Len(config) /\ next - 1 <= next' - 1
        /\ l.doc.whole => next' - 1 = next
    BY <1>2, <1>3, <1>8
  <2>3. /\ Begun' = SubSeq(config, 1, next' - 1) /\ OpenDate' = derniere_date
        /\ l.doc.whole => Begun' = grown
    BY <1>2, <2>0, <2>2 DEF Begun, OpenDate, grown
  <2>4. Partly(file'.configs, derniere_date, Begun')
    <3>1. CASE file' = file
      <4>1. ASSUME NEW k \in DOMAIN file.configs, file.configs[k].date = derniere_date
            PROVE  SomeKnown(file.configs[k].users, SubSeq(config, 1, next' - 1))
        <5>1. SomeKnown(file.configs[k].users, SubSeq(config, 1, next - 1))
          BY <1>2, <4>1 DEF SavedInv, FileSide, Partly, Begun
        <5>2. file.configs[k].users \in Seq(User)
          BY MasterTypes, ConfigAt
        <5> QED BY <1>3, <2>2, <5>1, <5>2, KnownLater
      <4> QED BY <2>3, <3>1, <4>1 DEF Partly
    <3>2. CASE r(l).ends = "saved" /\ file' = r(l).doc
      BY <1>4, <2>3, <3>2
    <3> QED BY <1>8, <3>1, <3>2 DEF SaveFile
  <2>5. ASSUME faults' = 0
        PROVE  Exact(file'.configs, noted, derniere_date, Begun') /\ file'.root /\ file'.whole
    <3>1. /\ faults = 0 /\ l.doc = file
          /\ \/ r(l).ends = "unsaved" /\ file' = file
             \/ r(l).ends = "saved" /\ file' = r(l).doc
      BY <1>8, <2>5, Unfailing DEF Inv
    <3>2. CASE r(l).ends = "saved" /\ file' = r(l).doc
      BY <1>4, <1>5, <2>3, <3>1, <3>2
    <3>3. CASE r(l).ends = "unsaved" /\ file' = file
      <4>1. \A k \in DOMAIN file.configs : file.configs[k].date # derniere_date
        BY <1>5, <1>7, <3>1, <3>3 DEF Holds, At
      <4>2. Exact(file.configs, noted, derniere_date, Begun')
        BY <1>5, <3>1, <4>1 DEF Exact, ExactEntry
      <4> QED BY <1>5, <3>1, <3>3, <4>2
    <3> QED BY <3>1, <3>2, <3>3
  <2>6. FileSide'
    <3> HIDE DEF Begun, OpenDate
    <3> QED BY <1>2, <2>0, <2>1, <2>3, <2>4, <2>5 DEF FileSide
  <2>7. RecordSide'
    BY <1>2, <2>0, <2>2 DEF SavedInv, RecordSide
  <2>8. ChoiceSide'
    BY <1>2, <2>0, <2>1, ChoiceAside DEF SavedInv
  <2> QED BY <2>6, <2>7, <2>8 DEF SavedInv
<1> QED BY <1>1, <1>4, <1>6, <1>8, SavedCalling

(* Recorded: the loop has come to the end of what was found. *)
LEMMA SavedRecorded ==
    ASSUME Inv, SavedInv, Recorded
    PROVE  SavedInv'
<1>1. /\ phase = "recording" /\ phase \in Busy /\ next > Len(config) /\ phase' = "use"
      /\ str' = Append(str, derniere_date) /\ next' = 1
      /\ UNCHANGED <<file, faults, clock, noted, config, config_choisie, agreed, addresses>>
  BY DEF Recorded, Busy, fileVars, discoveryVars, sendVars, ghostVars
<1>2. /\ derniere_date \in Dates /\ derniere_date <= clock /\ noted[derniere_date] = config
      /\ config \in Seq(Machines) /\ config # <<>> /\ next \in 1 .. Len(config) + 1
  BY <1>1, Recordable
<1>3. Begun = config
  <2>1. next - 1 = Len(config)
    BY <1>1, <1>2
  <2> QED BY <1>2, <2>1, SubSeqFull DEF Begun
<1>4. OpenDate' = NoneRecorded
  BY <1>1 DEF OpenDate
<1>5. faults = 0 => Exact(file.configs, noted, NoneRecorded, Begun')
  <2> SUFFICES ASSUME faults = 0, NEW k \in DOMAIN file.configs
               PROVE  ExactEntry(file.configs[k], noted, NoneRecorded, Begun')
    BY DEF Exact
  <2> DEFINE c == file.configs[k]
  <2>1. ExactEntry(c, noted, derniere_date, config)
    BY <1>1, <1>3 DEF SavedInv, FileSide, OpenDate, Exact
  <2>2. c.date \in Dates /\ c.date # NoneRecorded
    BY <2>1, MasterTypes, ConfigAt DEF ExactEntry, NoneRecorded, Dates
  <2> HIDE DEF c
  <2>3. AddressesIn(<<>>) = <<>>
    BY DEF AddressesIn
  <2>4. AddressesIn(c.users) = noted[c.date] /\ (UsableFirst => c.users # <<>>)
    BY <1>2, <2>1, <2>3 DEF ExactEntry
  <2>5. ExactEntry(c, noted, NoneRecorded, Begun')
    BY <2>1, <2>2, <2>4 DEF ExactEntry
  <2> QED BY <2>5 DEF c
<1>6. FileSide'
  <2> HIDE DEF Begun, OpenDate
  <2> QED BY <1>1, <1>4, <1>5 DEF SavedInv, FileSide
<1>7. RecordSide'
  BY <1>1, RecordAside DEF Busy
<1>8. \A k \in DOMAIN str' : str'[k] <= clock
  <2>1. str \in Seq(Dates) /\ \A k \in DOMAIN str : str[k] <= clock
    BY MasterTypes DEF SavedInv, ChoiceSide
  <2> QED BY <1>1, <1>2, <2>1
<1>9. ChoiceSide'
  BY <1>1, <1>8 DEF SavedInv, ChoiceSide, SentToAgreed, SomeOf
<1> QED BY <1>6, <1>7, <1>9 DEF SavedInv
-----------------------------------------------------------------------------
(* TakeDate: nothing has the new date. *)
LEMMA SavedTakesDate ==
    ASSUME Inv, SavedInv, TakeDate
    PROVE  SavedInv'
<1>1. /\ phase = "save" /\ phase' = "dating" /\ ~MissingInformation
      /\ clock < MaxDate /\ clock' = clock + 1 /\ derniere_date' = clock'
      /\ noted' = [noted EXCEPT ![clock'] = config]
      /\ UNCHANGED <<file, faults, config, str, config_choisie, agreed, addresses>>
  BY DEF TakeDate, fileVars, discoveryVars, sendVars
<1>2. /\ noted \in Notes /\ clock \in Nat /\ MaxDate \in Nat /\ file.configs \in Seq(Config)
      /\ str \in Seq(Dates) /\ DOMAIN noted = Dates
  BY MasterTypes, FileAssumption DEF Notes
<1>3. /\ clock' \in Dates /\ noted'[clock'] = config
      /\ \A date \in Dates : date <= clock => noted'[date] = noted[date] /\ date # clock'
                                              /\ date <= clock'
  BY <1>1, <1>2 DEF Dates
<1>4. \A k \in DOMAIN file.configs :
          /\ file.configs[k].date \in Dates \cup {NoDate}
          /\ file.configs[k].date # NoDate => file.configs[k].date <= clock
          /\ RightEntry(file.configs[k], noted, clock)
  BY <1>2, ConfigAt DEF SavedInv, FileSide, RightConfigs, RightEntry
<1>5. RightConfigs(file.configs, noted', clock')
  <2>1. \A k \in DOMAIN file.configs : RightEntry(file.configs[k], noted', clock')
    BY <1>3, <1>4 DEF RightEntry
  <2> QED BY <2>1 DEF SavedInv, FileSide, RightConfigs
<1>6. \A k \in DOMAIN file.configs : file.configs[k].date # derniere_date'
  BY <1>1, <1>3, <1>4, FileAssumption
<1>7. OpenDate = NoneRecorded /\ OpenDate' = NoneRecorded
  BY <1>1 DEF OpenDate
<1>8. faults = 0 => Exact(file.configs, noted', NoneRecorded, Begun')
  <2> SUFFICES ASSUME faults = 0, NEW k \in DOMAIN file.configs
               PROVE  ExactEntry(file.configs[k], noted', NoneRecorded, Begun')
    BY DEF Exact
  <2>1. ExactEntry(file.configs[k], noted, NoneRecorded, Begun)
    BY <1>7 DEF SavedInv, FileSide, Exact
  <2>2. file.configs[k].date \in Dates /\ file.configs[k].date # NoneRecorded
    BY <1>4, <2>1 DEF ExactEntry, NoneRecorded, Dates
  <2> QED BY <1>3, <1>4, <2>1, <2>2 DEF ExactEntry
<1>9. FileSide'
  <2> HIDE DEF Begun, OpenDate
  <2> QED BY <1>1, <1>5, <1>6, <1>7, <1>8 DEF FileSide
<1>10. RecordSide'
  BY <1>1, <1>3 DEF SavedInv, RecordSide, MissingInformation
<1>11. \A k \in DOMAIN str : str[k] <= clock'
  <2>1. \A k \in DOMAIN str : str[k] \in Dates /\ str[k] <= clock
    BY <1>2 DEF SavedInv, ChoiceSide
  <2> QED BY <1>3, <2>1
<1>12. ChoiceSide'
  BY <1>1, <1>3, <1>11 DEF SavedInv, ChoiceSide, SentToAgreed, SomeOf
<1> QED BY <1>9, <1>10, <1>12 DEF SavedInv

(* Quit, at any time. *)
LEMMA SavedQuit ==
    ASSUME Inv, SavedInv, Quit
    PROVE  SavedInv'
<1>1. faults \in Nat
  BY MasterTypes
<1>2. /\ Ends(FALSE) /\ file' = file
      /\ faults' = 0 => faults = 0 /\ phase = "idle"
  <2>1. Ends(FALSE) /\ ((phase = "idle" /\ UNCHANGED fileVars) \/ (Spend(1) /\ file' = file))
    BY DEF Quit
  <2>2. Spend(1) => faults' # 0
    BY <1>1 DEF Spend
  <2> QED BY <2>1, <2>2 DEF fileVars
<1>3. RightConfigs(file'.configs, noted, clock)
  BY <1>2 DEF SavedInv, FileSide
<1> QED BY <1>2, <1>3, SavedEnding

(* Start: the list box gets the dates of the file. *)
LEMMA SavedStart ==
    ASSUME Inv, SavedInv, Start
    PROVE  SavedInv'
<1>1. PICK l \in Loads :
          /\ Spend(l.cost)
          /\ file' = file
          /\ IF At(l.doc, NoDate) # {}
             THEN died' = TRUE /\ UNCHANGED <<phase, str>>
             ELSE died' = FALSE /\ phase' = "idle" /\ str' = DatesOf(l.doc)
  BY DEF Start
<1>2. /\ phase = "down"
      /\ UNCHANGED <<config, addresses, clock, noted, agreed, config_choisie>>
  BY DEF Start, discoveryVars, sendVars
<1>3. phase' \in {"down", "idle"}
  BY <1>1, <1>2
<1>4. faults' = 0 => faults = 0
  <2>1. l.cost \in Nat /\ faults \in Nat
    BY LoadsRight, MasterTypes DEF SavedInv
  <2> QED BY <1>1, <2>1 DEF Spend
<1>5. FileSide'
  <2>1. OpenDate = NoneRecorded /\ OpenDate' = NoneRecorded
    BY <1>2, <1>3 DEF OpenDate
  <2>2. faults' = 0 => Exact(file'.configs, noted', NoneRecorded, Begun')
    BY <1>1, <1>2, <1>4, <2>1, MasterTypes, ExactAny DEF SavedInv, FileSide
  <2> HIDE DEF OpenDate, Begun
  <2> QED BY <1>1, <1>2, <1>3, <2>1, <2>2 DEF SavedInv, FileSide
<1>6. RecordSide'
  BY <1>3, RecordAside DEF Busy
<1>7. \A k \in DOMAIN str' : str'[k] <= clock
  <2>1. CASE str' = str
    BY <2>1 DEF SavedInv, ChoiceSide
  <2>2. CASE str' = DatesOf(l.doc) /\ At(l.doc, NoDate) = {}
    <3>1. RightConfigs(l.doc.configs, noted, clock)
      BY LoadsRight DEF SavedInv
    <3>2. \A k \in DOMAIN l.doc.configs :
              l.doc.configs[k].date # NoDate /\ l.doc.configs[k].date <= clock
      BY <2>2, <3>1 DEF At, RightConfigs, RightEntry
    <3> QED BY <2>2, <3>2 DEF DatesOf
  <2> QED BY <1>1, <2>1, <2>2
<1>8. SentToAgreed'
  BY <1>2, <1>4 DEF SavedInv, ChoiceSide, SentToAgreed, SomeOf
<1>9. ChoiceSide'
  BY <1>2, <1>3, <1>7, <1>8 DEF SavedInv, ChoiceSide
<1> QED BY <1>5, <1>6, <1>9 DEF SavedInv
-----------------------------------------------------------------------------
(* Steps that change none of this. *)
LEMMA SavedSame ==
    ASSUME SavedInv, UNCHANGED <<fileVars, masterVars, sendVars, ghostVars, config>>
    PROVE  SavedInv'
<1>1. UNCHANGED <<file, faults, phase, str, config_choisie, derniere_date, next, addresses,
                  clock, noted, agreed, config>>
  BY DEF fileVars, masterVars, sendVars, ghostVars
<1>2. UNCHANGED <<Begun, OpenDate>>
  BY <1>1 DEF Begun, OpenDate
<1>3. FileSide'
  <2> HIDE DEF Begun, OpenDate
  <2> QED BY <1>1, <1>2 DEF SavedInv, FileSide
<1>4. RecordSide'
  BY <1>1 DEF SavedInv, RecordSide
<1>5. ChoiceSide'
  BY <1>1 DEF SavedInv, ChoiceSide, SentToAgreed, SomeOf
<1> QED BY <1>3, <1>4, <1>5 DEF SavedInv

(* OnConfigReseau, OnClose, and the search. *)
LEMMA SavedSearches ==
    ASSUME Inv, SavedInv,
           \/ OnConfigReseau \/ OnClose \/ ecouter \/ ShowFound
           \/ \E reached \in SUBSET Asked : OnBtnRechercherClicked(reached) \/ AskAgain(reached)
           \/ DoNotSave \/ CannotSave \/ DoNotUse
    PROVE  SavedInv'
<1>1. UNCHANGED <<fileVars, str, config_choisie, agreed, addresses, clock, noted>>
  BY DEF OnConfigReseau, OnClose, ecouter, ShowFound, OnBtnRechercherClicked, AskAgain,
         DoNotSave, CannotSave, Unrecorded, DoNotUse, masterVars, sendVars, ghostVars
<1>2. phase \in {"idle", "first", "second", "save", "use"}
  BY DEF OnConfigReseau, OnClose, ecouter, ShowFound, OnBtnRechercherClicked, AskAgain,
         DoNotSave, CannotSave, DoNotUse
<1>3. \/ phase = "idle" /\ phase' = "idle" /\ config' = config
      \/ phase' \in {"first", "second", "use"}
      \/ phase' = "idle" /\ config' = <<>>
      \/ phase' = "save" /\ config' # <<>>
  BY DEF OnConfigReseau, OnClose, ecouter, ShowFound, OnBtnRechercherClicked, AskAgain,
         DoNotSave, CannotSave, Unrecorded, DoNotUse, masterVars, discoveryVars, NothingFound,
         effacerConfigPresente
<1>4. config_choisie = PresentList /\ phase' \in {"down", "idle"} => config' \in {<<>>, agreed}
  BY <1>3 DEF SavedInv, ChoiceSide
<1>5. phase \notin Busy \cup {"told"} /\ phase' \notin Busy \cup {"told"}
  BY <1>2, <1>3 DEF Busy
<1>6. phase' = "save" => config' # <<>>
  BY <1>3
<1> QED BY <1>1, <1>4, <1>5, <1>6, Aside

(* The process ends in the search. *)
LEMMA SavedScan ==
    ASSUME Inv, SavedInv, ScanLeavesBuffer
    PROVE  SavedInv'
<1>1. Ends(TRUE) /\ file' = file /\ faults' = faults /\ phase # "recording"
  BY DEF ScanLeavesBuffer, fileVars
<1>2. RightConfigs(file'.configs, noted, clock)
  BY <1>1 DEF SavedInv, FileSide
<1> QED BY <1>1, <1>2, SavedEnding

(* UseFound, MessageRead, and OnSend when it does not look into the file. *)
LEMMA SavedChooses ==
    ASSUME Inv, SavedInv,
           \/ UseFound \/ MessageRead
           \/ \E named, picked \in BOOLEAN : NothingToSend(named, picked)
           \/ \E v \in Videos : SendToFound(v)
    PROVE  SavedInv'
<1>1. /\ UNCHANGED <<file, faults, str, config, clock, noted>>
      /\ phase \in {"use", "told", "idle"} /\ phase' \in {"idle", "told"}
  BY DEF UseFound, MessageRead, NothingToSend, SendToFound, tftpSend, fileVars, ghostVars,
         discoveryVars
<1>2. /\ \A k \in DOMAIN str : str[k] <= clock
      /\ config_choisie \in Dates => config_choisie <= clock /\ agreed = noted[config_choisie]
      /\ phase # "use" /\ config_choisie = PresentList => config \in {<<>>, agreed}
      /\ phase # "told" => addresses = <<>>
      /\ SentToAgreed
  BY <1>1 DEF SavedInv, ChoiceSide
<1>3. agreed \in Seq(Machines) /\ config \in Seq(Machines) /\ <<>> \in Seq(Machines)
  BY MasterTypes
<1>4. FileSide'
  BY <1>1, FileAside DEF SavedInv, Busy
<1>5. RecordSide'
  BY <1>1, RecordAside DEF Busy
<1>6. CASE UseFound
  <2>1. /\ phase = "use" /\ phase' = "idle" /\ config_choisie' = PresentList
        /\ agreed' = config /\ addresses' = addresses
    BY <1>6 DEF UseFound, Choose, sendVars
  <2>2. SomeOf(<<>>, config)
    BY <1>3, SomeOfAll
  <2>3. SentToAgreed'
    BY <1>2, <2>1, <2>2 DEF SentToAgreed
  <2>4. ChoiceSide'
    BY <1>1, <1>2, <2>1, <2>3, WindowsAssumption DEF ChoiceSide
  <2> QED BY <1>4, <1>5, <2>4 DEF SavedInv
<1>7. CASE MessageRead
  <2>1. phase = "told" /\ phase' = "idle" /\ addresses' = <<>>
        /\ UNCHANGED <<config_choisie, agreed>>
    BY <1>7 DEF MessageRead, ghostVars
  <2>2. SomeOf(<<>>, agreed)
    BY <1>3, SomeOfAll
  <2>3. SentToAgreed'
    BY <2>1, <2>2 DEF SentToAgreed
  <2>4. ChoiceSide'
    BY <1>1, <1>2, <2>1, <2>3 DEF ChoiceSide
  <2> QED BY <1>4, <1>5, <2>4 DEF SavedInv
<1>8. ASSUME NEW named \in BOOLEAN, NEW picked \in BOOLEAN, NothingToSend(named, picked)
      PROVE  SavedInv'
  <2>1. phase = "idle" /\ UNCHANGED <<config_choisie, agreed, addresses>>
    BY <1>8 DEF NothingToSend, ghostVars
  <2>2. SentToAgreed'
    BY <1>1, <1>2, <2>1 DEF SentToAgreed, SomeOf
  <2>3. ChoiceSide'
    BY <1>1, <1>2, <2>1, <2>2 DEF ChoiceSide
  <2> QED BY <1>4, <1>5, <2>3 DEF SavedInv
<1>9. ASSUME NEW v \in Videos, SendToFound(v)
      PROVE  SavedInv'
  <2>1. /\ phase = "idle" /\ phase' = "told" /\ config_choisie = PresentList
        /\ addresses' = config /\ UNCHANGED <<config_choisie, agreed>>
    BY <1>9 DEF SendToFound, tftpSend, ghostVars
  <2>2. config \in {<<>>, agreed} /\ SomeOf(config, agreed)
    BY <1>2, <1>3, <2>1, SomeOfAll
  <2>3. SentToAgreed'
    BY <2>1, <2>2 DEF SentToAgreed
  <2>4. ChoiceSide'
    BY <1>1, <1>2, <2>1, <2>2, <2>3 DEF ChoiceSide
  <2> QED BY <1>4, <1>5, <2>4 DEF SavedInv
<1> QED BY <1>6, <1>7, <1>8, <1>9

(* All steps. *)
LEMMA SavedStep ==
    ASSUME Inv, SavedInv, [Next]_vars
    PROVE  SavedInv'
<1>1. CASE UNCHANGED vars
  BY <1>1, SavedSame DEF vars, discoveryVars
<1>2. CASE Start \/ Quit
  BY <1>2, SavedStart, SavedQuit
<1>3. CASE OnConfigReseau \/ OnClose
  BY <1>3, SavedSearches
<1>4. CASE OnBtnClicked
  <2>1. ASSUME NEW reached \in SUBSET Asked, OnBtnRechercherClicked(reached)
        PROVE  SavedInv'
    BY <2>1, SavedSearches
  <2> QED BY <1>4, <2>1, SavedOK, SavedConsulter, SavedEffacer, SavedEffacerTout
          DEF OnBtnClicked
<1>5. CASE OnSend
  BY <1>5, SavedChooses, SavedSends DEF OnSend
<1>6. CASE Search
  <2>1. ASSUME NEW reached \in SUBSET Asked, AskAgain(reached)
        PROVE  SavedInv'
    BY <2>1, SavedSearches
  <2> QED BY <1>6, <2>1, SavedSearches, SavedScan DEF Search
<1>7. CASE Answer
  BY <1>7, SavedSearches, SavedTakesDate, SavedChooses DEF Answer
<1>8. CASE Record
  BY <1>8, SavedCreates, SavedRecords, SavedRecorded DEF Record
<1>9. CASE Network
  BY <1>9, SavedSame DEF Network, Deliver
<1> QED BY <1>1, <1>2, <1>3, <1>4, <1>5, <1>6, <1>7, <1>8, <1>9 DEF Next

(* What is noted of the first file is what its configurations hold. *)
LEMMA FirstFound ==
    ASSUME Init, NEW k \in DOMAIN InitDocument.configs
    PROVE  /\ InitDocument.configs[k].date = k /\ k \in Dates /\ k <= clock
           /\ noted[k] = AddressesIn(InitDocument.configs[k].users)
           /\ InitDocument.configs[k].users \in Seq(User)
<1> DEFINE cs == InitDocument.configs
<1>1. cs \in Seq(Config) /\ InitDocument \in Document
  BY FileAssumption DEF Document
<1>2. \A j \in DOMAIN cs : cs[j].date = j
  BY FileAssumption
<1>3. Len(cs) <= MaxDate /\ MaxDate \in Nat
  BY FileAssumption
<1>4. clock = Len(cs) /\ noted = [d \in Dates |-> AddressesOf(InitDocument, d)]
  BY DEF Init
<1>5. At(InitDocument, k) = {k}
  BY <1>2 DEF At
<1>6. First(At(InitDocument, k)) = k
  <2>1. {k} \subseteq Nat /\ {k} # {}
    <3> HIDE DEF cs
    <3>1. k \in 1 .. Len(cs)
      BY <1>1, ConfigAt DEF cs
    <3> QED BY <3>1
  <2>2. First({k}) \in {k}
    BY <2>1, FirstIs
  <2> QED BY <1>5, <2>2
<1>7. UsersOf(InitDocument, k) = cs[k].users
  BY <1>5, <1>6 DEF UsersOf, Holds
<1>8. cs[k].users \in Seq(User) /\ k \in 1 .. Len(cs)
  <2> HIDE DEF cs
  <2> QED BY <1>1, ConfigAt DEF cs
<1>9. AddressesOf(InitDocument, k) = AddressesIn(cs[k].users)
  BY <1>7 DEF AddressesOf, AddressesIn
<1>10. k \in Dates /\ k <= clock
  <2> HIDE DEF cs
  <2> QED BY <1>3, <1>4, <1>8 DEF Dates
<1> QED BY <1>2, <1>4, <1>8, <1>9, <1>10

(* The invariant holds in the beginning. *)
LEMMA SavedInit ==
    ASSUME Init
    PROVE  SavedInv
<1> DEFINE cs == InitDocument.configs
<1>1. /\ file = InitDocument /\ phase = "idle" /\ config_choisie = NoChoice /\ config = <<>>
      /\ addresses = <<>> /\ agreed = <<>> /\ str = DatesOf(InitDocument)
  BY DEF Init, FileInit, DiscoveryInit
<1>2. \A k \in DOMAIN cs : RightEntry(cs[k], noted, clock)
  <2> TAKE k \in DOMAIN cs
  <2>1. /\ cs[k].date = k /\ k \in Dates /\ k <= clock
        /\ noted[k] = AddressesIn(cs[k].users) /\ cs[k].users \in Seq(User)
    BY FirstFound
  <2>2. SomeKnown(cs[k].users, noted[k])
    BY <2>1, AllKnown
  <2> QED BY <2>1, <2>2 DEF RightEntry, UsableFirst
<1>3. Distinct(cs)
  BY FirstFound DEF Distinct
<1>4. Exact(cs, noted, NoneRecorded, Begun)
  <2> SUFFICES ASSUME NEW k \in DOMAIN cs
               PROVE  ExactEntry(cs[k], noted, NoneRecorded, Begun)
    BY DEF Exact
  <2>1. /\ cs[k].date = k /\ k \in Dates /\ noted[k] = AddressesIn(cs[k].users)
    BY FirstFound
  <2>2. k # NoDate /\ k # NoneRecorded
    BY <2>1, FileAssumption DEF Dates, NoneRecorded
  <2> QED BY <2>1, <2>2 DEF ExactEntry, UsableFirst
<1>5. FileSide
  BY <1>1, <1>2, <1>3, <1>4 DEF FileSide, RightConfigs, OpenDate
<1>6. RecordSide
  BY <1>1 DEF RecordSide
<1>7. \A k \in DOMAIN str : str[k] <= clock
  BY <1>1, FirstFound DEF DatesOf
<1>8. SomeOf(<<>>, <<>>)
  <2>1. <<>> \in Seq(Machines)
    OBVIOUS
  <2> QED BY <2>1, SomeOfAll
<1>9. ChoiceSide
  BY <1>1, <1>7, <1>8, WindowsAssumption DEF ChoiceSide, SentToAgreed
<1> QED BY <1>5, <1>6, <1>9 DEF SavedInv

(* So it always holds. *)
LEMMA SavedInvariance == Spec => []SavedInv
<1>1. Init => Inv /\ SavedInv
  BY Begins, SavedInit
<1>2. Inv /\ SavedInv /\ [Next]_vars => (Inv /\ SavedInv)'
  BY StepKeeps, SavedStep
<1> QED BY <1>1, <1>2, PTL DEF Spec

(***************************************************************************)
(* Whatever fails and whatever is clicked, the users of a configuration in *)
(* the file are machines that the search before its date has found, in     *)
(* their order; and all of them if nothing has failed, once                *)
(* enregistrerConfigPresente has returned.                                 *)
(***************************************************************************)
THEOREM SavedAreFound == Spec => []SavedAsFound
<1>1. Inv /\ SavedInv => SavedAsFound
  <2> SUFFICES ASSUME Inv, SavedInv, NEW k \in DOMAIN file.configs,
                      file.configs[k].date # NoDate
               PROVE  /\ SomeKnown(file.configs[k].users, noted[file.configs[k].date])
                      /\ faults = 0 /\ ~BeingRecorded(file.configs[k]) =>
                             AddressesIn(file.configs[k].users) = noted[file.configs[k].date]
    BY DEF SavedAsFound
  <2> DEFINE c == file.configs[k]
  <2>1. RightEntry(c, noted, clock)
    BY DEF SavedInv, FileSide, RightConfigs
  <2>2. faults = 0 => ExactEntry(c, noted, OpenDate, Begun)
    BY DEF SavedInv, FileSide, Exact
  <2>3. ~BeingRecorded(c) => c.date # OpenDate \/ OpenDate = NoneRecorded
    BY DEF BeingRecorded, OpenDate
  <2> HIDE DEF c
  <2>4. ASSUME faults = 0, ~BeingRecorded(c)
        PROVE  AddressesIn(c.users) = noted[c.date]
    <3>1. c.date # NoneRecorded
      BY <2>2, <2>4, MasterTypes, ConfigAt DEF ExactEntry, NoneRecorded, Dates, c
    <3> QED BY <2>2, <2>3, <2>4, <3>1 DEF ExactEntry
  <2> QED BY <2>1, <2>4 DEF RightEntry, c
<1> QED BY <1>1, Invariance, SavedInvariance, PTL

(***************************************************************************)
(* If every configuration of the first file has users, and the nbvideo of  *)
(* each, no machine without nbvideo is ever in the file, and without a     *)
(* fault no recorded configuration is empty.                               *)
(***************************************************************************)
THEOREM UsableAreSaved == UsableFirst => (Spec => []UsableOnly)
<1> SUFFICES ASSUME UsableFirst
             PROVE  Spec => []UsableOnly
  OBVIOUS
<1>1. Inv /\ SavedInv => UsableOnly
  <2> SUFFICES ASSUME Inv, SavedInv, NEW k \in DOMAIN file.configs
               PROVE  /\ Complete(file.configs[k].users)
                      /\ faults = 0 /\ ~BeingRecorded(file.configs[k]) =>
                             file.configs[k].users # <<>>
    BY DEF UsableOnly, Complete
  <2> DEFINE c == file.configs[k]
  <2>1. RightEntry(c, noted, clock)
    BY DEF SavedInv, FileSide, RightConfigs
  <2>2. faults = 0 => ExactEntry(c, noted, OpenDate, Begun)
    BY DEF SavedInv, FileSide, Exact
  <2>3. ~BeingRecorded(c) => c.date # OpenDate \/ OpenDate = NoneRecorded
    BY DEF BeingRecorded, OpenDate
  <2> HIDE DEF c
  <2>4. ASSUME faults = 0, ~BeingRecorded(c)
        PROVE  c.users # <<>>
    <3>1. c.date # NoneRecorded
      BY <2>2, <2>4, MasterTypes, ConfigAt DEF ExactEntry, NoneRecorded, Dates, c
    <3> QED BY <2>2, <2>3, <2>4, <3>1 DEF ExactEntry
  <2> QED BY <2>1, <2>4 DEF RightEntry, c
<1> QED BY <1>1, Invariance, SavedInvariance, PTL

(***************************************************************************)
(* tftpSend is only ever given machines the user has agreed to, in their   *)
(* order, and without a fault all of them or none, although config_choisie *)
(* is a date: the configuration it names is looked up again in a file that *)
(* was erased, extended or cut since.                                      *)
(***************************************************************************)
THEOREM SentAreAgreed == Spec => []SentToAgreed
<1>1. SavedInv => SentToAgreed
  BY DEF SavedInv, ChoiceSide
<1> QED BY <1>1, SavedInvariance, PTL
-----------------------------------------------------------------------------
(***************************************************************************)
(* ConfigReseau.xml implements ConfigBook: each handler that loads, changes*)
(* and saves it is one of the changes of a book, or none, wherever it      *)
(* fails.                                                                  *)
(***************************************************************************)
Addresses == Machines \cup {NoAddress}
Entry == [date : AnyDate, users : Seq(Addresses)]
BookIn(cs) == [k \in DOMAIN cs |-> EntryOf(cs[k])]

(* The book of a document is that of its configurations. *)
LEMMA BookOfIs == \A d : BookOf(d) = BookIn(d.configs)
  BY DEF BookOf, BookIn

(* A configuration makes an entry. *)
LEMMA EntryIs ==
    ASSUME NEW c \in Config
    PROVE  /\ EntryOf(c) \in Entry
           /\ EntryOf(c).date = c.date /\ EntryOf(c).users = AddressesIn(c.users)
<1>1. c.users \in Seq(User) /\ c.date \in AnyDate
  BY DEF Config, AnyDate
<1>2. AddressesIn(c.users) \in Seq(Addresses)
  BY <1>1, AddressesInIs DEF Addresses
<1> QED BY <1>1, <1>2 DEF EntryOf, Entry

(* A list of configurations makes a book, entry by entry, *)
LEMMA BookIs ==
    ASSUME NEW cs \in Seq(Config)
    PROVE  /\ BookIn(cs) \in Seq(Entry)
           /\ Len(BookIn(cs)) = Len(cs) /\ Len(cs) \in Nat
           /\ DOMAIN BookIn(cs) = 1 .. Len(cs) /\ DOMAIN cs = 1 .. Len(cs)
           /\ \A k \in 1 .. Len(cs) : BookIn(cs)[k] = EntryOf(cs[k])
<1>1. DOMAIN cs = 1 .. Len(cs) /\ Len(cs) \in Nat
  OBVIOUS
<1>2. \A k \in DOMAIN cs : EntryOf(cs[k]) \in Entry
  BY ConfigAt, EntryIs, Cutting
<1> QED BY <1>1, <1>2 DEF BookIn

(* and any book with these entries is it. *)
LEMMA BookSame ==
    ASSUME NEW cs \in Seq(Config), NEW b \in Seq(Entry), Len(b) = Len(cs),
           \A k \in 1 .. Len(cs) : b[k] = EntryOf(cs[k])
    PROVE  BookIn(cs) = b
<1>1. /\ BookIn(cs) \in Seq(Entry) /\ Len(BookIn(cs)) = Len(cs)
      /\ \A k \in 1 .. Len(cs) : BookIn(cs)[k] = EntryOf(cs[k])
  BY BookIs
<1> QED BY <1>1, SeqEqual

(* A file without configurations is an empty book. *)
LEMMA EmptyBook == BookIn(<<>>) = <<>> /\ BookOf(EmptyDocument) = <<>>
  BY DEF BookIn, BookOf, EmptyDocument

(* The places of a sequence. *)
LEMMA PlacesOf ==
    ASSUME NEW S, NEW s \in Seq(S)
    PROVE  DOMAIN s = 1 .. Len(s) /\ Len(s) \in Nat
  OBVIOUS

(* Beginnings of sequences. *)
LEMMA UpToIs ==
    ASSUME NEW S, NEW s \in Seq(S), NEW k \in 0 .. Len(s)
    PROVE  /\ SubSeq(s, 1, k) \in Seq(S) /\ Len(SubSeq(s, 1, k)) = k
           /\ \A j \in 1 .. k : SubSeq(s, 1, k)[j] = s[j]
  OBVIOUS

(* One element more. *)
OneMoreIs(S, s, e, t) ==
    /\ t \in Seq(S) /\ Len(t) = Len(s) + 1 /\ Len(s) \in Nat
    /\ t[Len(s) + 1] = e
    /\ \A j \in 1 .. Len(s) : t[j] = s[j]

(* Append gives one. *)
LEMMA AppendIs ==
    ASSUME NEW S, NEW s \in Seq(S), NEW e \in S
    PROVE  OneMoreIs(S, s, e, Append(s, e))
  BY DEF OneMoreIs

(* A longer beginning. *)
LEMMA OneFurther ==
    ASSUME NEW S, NEW s \in Seq(S), NEW k \in 1 .. Len(s)
    PROVE  SubSeq(s, 1, k) = Append(SubSeq(s, 1, k - 1), s[k])
<1>1. k - 1 \in 0 .. Len(s) /\ k \in 0 .. Len(s) /\ s[k] \in S
  OBVIOUS
<1> DEFINE t == SubSeq(s, 1, k)
           u == SubSeq(s, 1, k - 1)
<1>2. t \in Seq(S) /\ Len(t) = k /\ \A j \in 1 .. k : t[j] = s[j]
  BY <1>1, UpToIs
<1>3. u \in Seq(S) /\ Len(u) = k - 1 /\ \A j \in 1 .. k - 1 : u[j] = s[j]
  BY <1>1, UpToIs
<1> HIDE DEF t, u
<1>4. Append(u, s[k]) \in Seq(S) /\ Len(Append(u, s[k])) = Len(t)
  BY <1>1, <1>2, <1>3
<1>5. \A j \in 1 .. Len(t) : t[j] = Append(u, s[k])[j]
  BY <1>1, <1>2, <1>3
<1>6. t = Append(u, s[k])
  BY <1>2, <1>4, <1>5, SeqEqual
<1> QED BY <1>6 DEF t, u

(* The longest and the shortest. *)
LEMMA AllOfIt ==
    ASSUME NEW S, NEW s \in Seq(S)
    PROVE  SubSeq(s, 1, Len(s)) = s /\ SubSeq(s, 1, 0) = <<>>
<1>1. Len(s) \in 0 .. Len(s)
  OBVIOUS
<1>2. SubSeq(s, 1, Len(s)) = s
  BY <1>1, UpToIs, SeqEqual
<1> QED BY <1>2
-----------------------------------------------------------------------------
(* The addresses of a beginning of a list of users, *)
LEMMA AddressesCut ==
    ASSUME NEW us \in Seq(User), NEW k \in 0 .. Len(us)
    PROVE  AddressesIn(SubSeq(us, 1, k)) = SubSeq(AddressesIn(us), 1, k)
<1> DEFINE as == AddressesIn(us)
           v == SubSeq(us, 1, k)
           w == SubSeq(as, 1, k)
<1>1. as \in Seq(Addresses) /\ Len(as) = Len(us) /\ \A j \in 1 .. Len(us) : as[j] = us[j].ip
  BY AddressesInIs DEF Addresses
<1>2. v \in Seq(User) /\ Len(v) = k /\ \A j \in 1 .. k : v[j] = us[j]
  BY UpToIs
<1> HIDE DEF as
<1>3. w \in Seq(Addresses) /\ Len(w) = k /\ \A j \in 1 .. k : w[j] = as[j]
  <2>1. as \in Seq(Addresses) /\ k \in 0 .. Len(as)
    BY <1>1
  <2> HIDE DEF v, w
  <2> QED BY <2>1, UpToIs DEF w
<1> HIDE DEF v, w
<1>4. /\ AddressesIn(v) \in Seq(Addresses) /\ Len(AddressesIn(v)) = k
      /\ \A j \in 1 .. k : AddressesIn(v)[j] = v[j].ip
  BY <1>2, AddressesInIs DEF Addresses
<1>5. \A j \in 1 .. k : AddressesIn(v)[j] = w[j]
  <2> TAKE j \in 1 .. k
  <2>1. j \in 1 .. Len(us)
    OBVIOUS
  <2>2. v[j] = us[j] /\ w[j] = as[j]
    BY <1>2, <1>3
  <2> QED BY <1>1, <1>4, <2>1, <2>2
<1>6. AddressesIn(v) = w
  BY <1>3, <1>4, <1>5, SeqEqual
<1> QED BY <1>6 DEF v, w, as

(* and of one more user. *)
LEMMA AddressesAppended ==
    ASSUME NEW us \in Seq(User), NEW u \in User
    PROVE  AddressesIn(Append(us, u)) = Append(AddressesIn(us), u.ip)
<1> DEFINE as == AddressesIn(us)
           more == Append(us, u)
           w == Append(as, u.ip)
<1>1. as \in Seq(Addresses) /\ Len(as) = Len(us) /\ \A j \in 1 .. Len(us) : as[j] = us[j].ip
  BY AddressesInIs DEF Addresses
<1>2. /\ more \in Seq(User) /\ Len(more) = Len(us) + 1 /\ Len(us) \in Nat
      /\ more[Len(us) + 1] = u /\ \A j \in 1 .. Len(us) : more[j] = us[j]
  BY AppendIs DEF OneMoreIs
<1>3. u.ip \in Addresses
  BY DEF User, Addresses
<1> HIDE DEF as
<1>4. /\ w \in Seq(Addresses) /\ Len(w) = Len(us) + 1
      /\ w[Len(us) + 1] = u.ip /\ \A j \in 1 .. Len(us) : w[j] = as[j]
  <2>0. as \in Seq(Addresses)
    BY <1>1
  <2>1. OneMoreIs(Addresses, as, u.ip, w)
    BY <1>3, <2>0, AppendIs
  <2> HIDE DEF w
  <2> QED BY <1>1, <2>1 DEF OneMoreIs
<1> HIDE DEF more, w
<1>5. \A j \in 1 .. Len(us) + 1 : w[j] = more[j].ip
  <2> TAKE j \in 1 .. Len(us) + 1
  <2>1. j \in 1 .. Len(us) \/ j = Len(us) + 1
    BY <1>2
  <2> QED BY <1>1, <1>2, <1>4, <2>1
<1>6. /\ AddressesIn(more) \in Seq(Addresses) /\ Len(AddressesIn(more)) = Len(more)
      /\ \A j \in 1 .. Len(more) : AddressesIn(more)[j] = more[j].ip
  BY <1>2, AddressesInIs DEF Addresses
<1>7. AddressesIn(more) = w
  BY <1>2, <1>4, <1>5, <1>6, SeqEqual
<1> QED BY <1>7 DEF more, w, as

(* Less of a list of users is less of an entry. *)
LEMMA UsersOfBookCut ==
    ASSUME NEW us \in Seq(User), NEW v \in CutUsers(us)
    PROVE  AddressesIn(v) \in Book!CutUsers(AddressesIn(us))
<1> DEFINE as == AddressesIn(us)
<1>1. as \in Seq(Addresses) /\ Len(as) = Len(us) /\ Len(us) \in Nat /\ DOMAIN us = 1 .. Len(us)
      /\ \A j \in DOMAIN us : as[j] = us[j].ip
  BY AddressesInIs DEF Addresses
<1>2. \A k \in 0 .. Len(us) : AddressesIn(SubSeq(us, 1, k)) = SubSeq(as, 1, k)
  BY AddressesCut
<1> HIDE DEF as
<1>3. \A k \in 0 .. Len(us) : SubSeq(as, 1, k) \in Book!CutUsers(as)
  BY <1>1 DEF Book!CutUsers
<1>4. CASE v = us
  <2>1. AddressesIn(v) = SubSeq(as, 1, Len(us))
    BY <1>1, <1>4, AllOfIt DEF as
  <2> QED BY <1>1, <1>3, <2>1 DEF as
<1>5. ASSUME NEW k \in DOMAIN us, v = SubSeq(us, 1, k - 1)
      PROVE  AddressesIn(v) \in Book!CutUsers(as)
  <2>1. k - 1 \in 0 .. Len(us)
    BY <1>1, <1>5
  <2> QED BY <1>2, <1>3, <1>5, <2>1
<1>6. ASSUME NEW k \in DOMAIN us, NEW u \in CutUser(us[k]), v = Append(SubSeq(us, 1, k - 1), u)
      PROVE  AddressesIn(v) \in Book!CutUsers(as)
  <2>1. k \in 1 .. Len(us) /\ k - 1 \in 0 .. Len(us) /\ k \in 0 .. Len(us)
    BY <1>1, <1>6
  <2>2. us[k] \in User /\ SubSeq(us, 1, k - 1) \in Seq(User)
    BY Cutting
  <2>3. u \in User /\ u.ip \in {NoAddress, us[k].ip}
    <3>1. CASE u = [ip |-> NoAddress, rest |-> FALSE]
      BY <3>1 DEF User
    <3>2. CASE u = [us[k] EXCEPT !.rest = FALSE]
      BY <2>2, <3>2 DEF User
    <3>3. CASE u = us[k]
      BY <2>2, <3>3
    <3> QED BY <1>6, <3>1, <3>2, <3>3 DEF CutUser
  <2>4. AddressesIn(v) = Append(SubSeq(as, 1, k - 1), u.ip)
    BY <1>2, <1>6, <2>1, <2>2, <2>3, AddressesAppended
  <2>5. CASE u.ip = NoAddress
    <3>1. k \in DOMAIN as
      <4>1. DOMAIN as = 1 .. Len(as)
        BY <1>1, PlacesOf
      <4> QED BY <1>1, <2>1, <4>1
    <3>2. Book!UpTo(as, k, NoAddress) = AddressesIn(v)
      BY <2>4, <2>5 DEF Book!UpTo
    <3> QED BY <3>1, <3>2 DEF Book!CutUsers
  <2>6. CASE u.ip = us[k].ip
    <3>1. AddressesIn(v) = SubSeq(as, 1, k)
      <4>1. k \in 1 .. Len(as) /\ as[k] = us[k].ip
        BY <1>1, <2>1
      <4> QED BY <1>1, <2>4, <2>6, <4>1, OneFurther
    <3> QED BY <1>3, <2>1, <3>1
  <2> QED BY <2>3, <2>5, <2>6
<1> QED BY <1>4, <1>5, <1>6 DEF CutUsers, as

(* Less of a configuration is less of an entry. *)
LEMMA EntryCut ==
    ASSUME NEW c \in Config, NEW e \in CutConfig(c)
    PROVE  EntryOf(e) \in Book!CutEntry(EntryOf(c))
<1>1. c.users \in Seq(User)
  BY DEF Config
<1>2. CASE e = [date |-> NoDate, users |-> <<>>]
  <2>1. AddressesIn(<<>>) = <<>>
    BY DEF AddressesIn
  <2> QED BY <1>2, <2>1 DEF EntryOf, Book!CutEntry
<1>3. ASSUME NEW us \in CutUsers(c.users), e = [c EXCEPT !.users = us]
      PROVE  EntryOf(e) \in Book!CutEntry(EntryOf(c))
  <2>1. e.date = c.date /\ e.users = us
    BY <1>3 DEF Config
  <2>2. AddressesIn(us) \in Book!CutUsers(AddressesIn(c.users))
    BY <1>1, UsersOfBookCut
  <2> QED BY <2>1, <2>2, EntryIs DEF EntryOf, Book!CutEntry
<1> QED BY <1>2, <1>3 DEF CutConfig
-----------------------------------------------------------------------------
(* The book of a beginning of a list of configurations, *)
LEMMA BookCut ==
    ASSUME NEW cs \in Seq(Config), NEW k \in 0 .. Len(cs)
    PROVE  BookIn(SubSeq(cs, 1, k)) = SubSeq(BookIn(cs), 1, k)
<1> DEFINE b == BookIn(cs)
           ds == SubSeq(cs, 1, k)
           w == SubSeq(b, 1, k)
<1>1. b \in Seq(Entry) /\ Len(b) = Len(cs) /\ \A j \in 1 .. Len(cs) : b[j] = EntryOf(cs[j])
  BY BookIs
<1>2. ds \in Seq(Config) /\ Len(ds) = k /\ \A j \in 1 .. k : ds[j] = cs[j]
  BY UpToIs
<1> HIDE DEF b
<1>3. w \in Seq(Entry) /\ Len(w) = k /\ \A j \in 1 .. k : w[j] = b[j]
  <2>1. b \in Seq(Entry) /\ k \in 0 .. Len(b)
    BY <1>1
  <2> HIDE DEF ds, w
  <2> QED BY <2>1, UpToIs DEF w
<1> HIDE DEF ds, w
<1>4. \A j \in 1 .. Len(ds) : w[j] = EntryOf(ds[j])
  <2> TAKE j \in 1 .. Len(ds)
  <2>1. j \in 1 .. k /\ j \in 1 .. Len(cs)
    BY <1>2
  <2> QED BY <1>1, <1>2, <1>3, <2>1
<1>5. BookIn(ds) = w
  BY <1>2, <1>3, <1>4, BookSame
<1> QED BY <1>5 DEF ds, w, b

(* of one with one more, *)
LEMMA BookAppended ==
    ASSUME NEW cs \in Seq(Config), NEW c \in Config
    PROVE  BookIn(Append(cs, c)) = Append(BookIn(cs), EntryOf(c))
<1> DEFINE b == BookIn(cs)
           ds == Append(cs, c)
           w == Append(b, EntryOf(c))
<1>1. b \in Seq(Entry) /\ Len(b) = Len(cs) /\ \A j \in 1 .. Len(cs) : b[j] = EntryOf(cs[j])
  BY BookIs
<1>2. OneMoreIs(Config, cs, c, ds)
  BY AppendIs
<1>3. EntryOf(c) \in Entry
  BY EntryIs
<1> HIDE DEF b, ds
<1>4. OneMoreIs(Entry, b, EntryOf(c), w)
  BY <1>1, <1>3, AppendIs
<1> HIDE DEF w
<1>5. \A j \in 1 .. Len(ds) : w[j] = EntryOf(ds[j])
  <2> TAKE j \in 1 .. Len(ds)
  <2>1. j \in 1 .. Len(cs) \/ j = Len(cs) + 1
    BY <1>2 DEF OneMoreIs
  <2> QED BY <1>1, <1>2, <1>4, <2>1 DEF OneMoreIs
<1>6. ds \in Seq(Config) /\ w \in Seq(Entry) /\ Len(w) = Len(ds)
  BY <1>1, <1>2, <1>4 DEF OneMoreIs
<1>7. BookIn(ds) = w
  BY <1>5, <1>6, BookSame
<1> QED BY <1>7 DEF ds, w, b

(* and of one without an element. *)
LEMMA BookWithout ==
    ASSUME NEW cs \in Seq(Config), NEW k \in DOMAIN cs
    PROVE  BookIn(SubSeq(cs, 1, k - 1) \o SubSeq(cs, k + 1, Len(cs)))
             = SubSeq(BookIn(cs), 1, k - 1) \o SubSeq(BookIn(cs), k + 1, Len(BookIn(cs)))
<1> DEFINE b == BookIn(cs)
           ds == SubSeq(cs, 1, k - 1) \o SubSeq(cs, k + 1, Len(cs))
           w == SubSeq(b, 1, k - 1) \o SubSeq(b, k + 1, Len(b))
           at(j) == IF j < k THEN j ELSE j + 1
<1>1. /\ b \in Seq(Entry) /\ Len(b) = Len(cs) /\ Len(cs) \in Nat /\ DOMAIN cs = 1 .. Len(cs)
      /\ \A j \in 1 .. Len(cs) : b[j] = EntryOf(cs[j])
  BY BookIs
<1>2. /\ ds \in Seq(Config) /\ DOMAIN ds = 1 .. Len(cs) - 1
      /\ \A j \in DOMAIN ds : ds[j] = cs[at(j)]
  BY Without
<1> HIDE DEF b
<1>3. DOMAIN b = 1 .. Len(cs)
  <2>1. DOMAIN b = 1 .. Len(b)
    BY <1>1, PlacesOf
  <2> QED BY <1>1, <2>1
<1>4. /\ w \in Seq(Entry) /\ DOMAIN w = 1 .. Len(b) - 1
      /\ \A j \in DOMAIN w : w[j] = b[at(j)]
  <2>1. b \in Seq(Entry) /\ k \in DOMAIN b
    BY <1>1, <1>3
  <2> HIDE DEF ds
  <2> QED BY <2>1, Without
<1> HIDE DEF ds, w
<1>5. k \in 1 .. Len(cs)
  BY <1>1
<1>6. Len(ds) = Len(cs) - 1 /\ Len(w) = Len(cs) - 1
  <2>1. DOMAIN ds = 1 .. Len(ds) /\ DOMAIN w = 1 .. Len(w) /\ Len(ds) \in Nat /\ Len(w) \in Nat
    BY <1>2, <1>4, PlacesOf
  <2>2. Len(cs) - 1 \in Nat
    BY <1>1, <1>5
  <2> QED BY <1>1, <1>2, <1>4, <2>1, <2>2
<1>7. \A j \in 1 .. Len(ds) : w[j] = EntryOf(ds[j])
  <2> TAKE j \in 1 .. Len(ds)
  <2>1. at(j) \in 1 .. Len(cs)
    BY <1>1, <1>5, <1>6
  <2>2. ds[j] = cs[at(j)] /\ w[j] = b[at(j)]
    BY <1>1, <1>2, <1>4, <1>6
  <2> HIDE DEF at
  <2> QED BY <1>1, <2>1, <2>2
<1>8. BookIn(ds) = w
  BY <1>2, <1>4, <1>6, <1>7, BookSame
<1> QED BY <1>8 DEF ds, w, b

(* A beginning may end within an entry. *)
LEMMA CutWithin ==
    ASSUME NEW b, NEW k \in DOMAIN b, NEW e \in Book!CutEntry(b[k])
    PROVE  Append(SubSeq(b, 1, k - 1), e) \in Book!Beginnings(b)
<1> DEFINE Within(j) == {Book!UpTo(b, j, c) : c \in Book!CutEntry(b[j])}
<1>1. Book!UpTo(b, k, e) \in Within(k)
  OBVIOUS
<1>2. Book!Beginnings(b)
        = {SubSeq(b, 1, j) : j \in 0 .. Len(b)} \cup UNION {Within(j) : j \in DOMAIN b}
  BY DEF Book!Beginnings
<1> HIDE DEF Within
<1>3. Book!UpTo(b, k, e) \in Book!Beginnings(b)
  BY <1>1, <1>2
<1> QED BY <1>3 DEF Book!UpTo

(* A cut file is a beginning of its book. *)
LEMMA CutBook ==
    ASSUME NEW d \in Document, NEW e \in Cuts(d)
    PROVE  BookOf(e) \in Book!Beginnings(BookOf(d))
<1> DEFINE cs == d.configs
           b == BookIn(cs)
<1>1. cs \in Seq(Config)
  BY DEF Document
<1>2. /\ b \in Seq(Entry) /\ Len(b) = Len(cs) /\ Len(cs) \in Nat
      /\ DOMAIN b = 1 .. Len(cs) /\ DOMAIN cs = 1 .. Len(cs)
      /\ \A j \in 1 .. Len(cs) : b[j] = EntryOf(cs[j])
  BY <1>1, BookIs
<1>3. \A k \in 0 .. Len(cs) : BookIn(SubSeq(cs, 1, k)) = SubSeq(b, 1, k)
  BY <1>1, BookCut
<1> HIDE DEF b, cs
<1>4. \A k \in 0 .. Len(cs) : SubSeq(b, 1, k) \in Book!Beginnings(b)
  BY <1>2 DEF Book!Beginnings
<1>5. <<>> \in Book!Beginnings(b)
  <2>1. SubSeq(b, 1, 0) = <<>> /\ 0 \in 0 .. Len(cs)
    BY <1>2, AllOfIt
  <2> QED BY <1>4, <2>1
<1>6. b \in Book!Beginnings(b)
  <2>1. SubSeq(b, 1, Len(cs)) = b /\ Len(cs) \in 0 .. Len(cs)
    BY <1>2, AllOfIt
  <2> QED BY <1>4, <2>1
<1>7. ASSUME NEW k \in DOMAIN cs, NEW c \in CutConfig(cs[k])
      PROVE  BookIn(Append(SubSeq(cs, 1, k - 1), c)) \in Book!Beginnings(b)
  <2>1. k \in 1 .. Len(cs) /\ k - 1 \in 0 .. Len(cs) /\ k \in DOMAIN b
    BY <1>2
  <2>2. cs[k] \in Config /\ SubSeq(cs, 1, k - 1) \in Seq(Config)
    BY <1>1, Cutting
  <2>3. c \in Config
    <3>1. CASE c = [date |-> NoDate, users |-> <<>>]
      BY <3>1 DEF Config
    <3>2. ASSUME NEW us \in CutUsers(cs[k].users), c = [cs[k] EXCEPT !.users = us]
          PROVE  c \in Config
      <4>1. us \in Seq(User)
        BY <2>2, UsersCut DEF Config
      <4> QED BY <2>2, <3>2, <4>1 DEF Config
    <3> QED BY <1>7, <3>1, <3>2 DEF CutConfig
  <2>4. BookIn(Append(SubSeq(cs, 1, k - 1), c)) = Append(SubSeq(b, 1, k - 1), EntryOf(c))
    <3> DEFINE kept == SubSeq(cs, 1, k - 1)
    <3>1. BookIn(kept) = SubSeq(b, 1, k - 1)
      BY <1>3, <2>1
    <3>2. BookIn(Append(kept, c)) = Append(BookIn(kept), EntryOf(c))
      BY <2>2, <2>3, BookAppended
    <3> HIDE DEF kept
    <3>3. BookIn(Append(kept, c)) = Append(SubSeq(b, 1, k - 1), EntryOf(c))
      BY <3>1, <3>2
    <3> QED BY <3>3 DEF kept
  <2>5. EntryOf(c) \in Book!CutEntry(b[k])
    BY <1>2, <1>7, <2>1, <2>2, EntryCut
  <2> QED BY <2>1, <2>4, <2>5, CutWithin
<1>8. BookOf(d) = b
  BY BookOfIs DEF b, cs
<1>9. CASE e = EmptyDocument
  BY <1>5, <1>8, <1>9, EmptyBook
<1>10. CASE e = d
  BY <1>6, <1>8, <1>10
<1>11. ASSUME NEW ds \in CutConfigs(cs), e = [root |-> TRUE, configs |-> ds, whole |-> FALSE]
       PROVE  BookOf(e) \in Book!Beginnings(BookOf(d))
  <2>1. BookOf(e) = BookIn(ds)
    BY <1>11, BookOfIs
  <2>2. BookIn(ds) \in Book!Beginnings(b)
    <3>1. CASE ds = <<>>
      BY <1>5, <3>1, EmptyBook
    <3> QED BY <1>7, <1>11, <3>1 DEF CutConfigs
  <2> QED BY <1>8, <2>1, <2>2
<1> QED BY <1>9, <1>10, <1>11 DEF Cuts, cs
-----------------------------------------------------------------------------
(***************************************************************************)
(* The clock of the book is one behind while a date is taken and its       *)
(* configuration not yet created.  enregistrerConfigPresente adds users to *)
(* the first configuration with the date; it is the last one of the file.  *)
(***************************************************************************)
BookClock == IF phase = "dating" THEN clock - 1 ELSE clock

LastOpen ==
    phase = "recording" =>
        \A k \in DOMAIN file.configs :
            file.configs[k].date = derniere_date => k = Len(file.configs)

BookInv == Inv /\ SavedInv /\ LastOpen

(* The ways a book is written. *)
LEMMA Written ==
    ASSUME NEW b, faults' >= faults,
           BookOf(file') = b \/ (faults' > faults /\ BookOf(file') \in Book!Beginnings(b))
    PROVE  Book!Write(b)
  BY DEF Book!Write

(* What a method saves is written into the book, or the book stays as it is. *)
LEMMA SavingWrites ==
    ASSUME Inv, NEW l \in Loads, NEW r, r.ends = "saved" => r.doc \in Document,
           SaveFile(r, l.cost) \/ InterruptedSave(r, l.cost) \/ NullDereference(r, l.cost)
    PROVE  Book!Write(BookOf(file)) \/ (r.ends = "saved" /\ Book!Write(BookOf(r.doc)))
<1>1. l.cost \in Nat /\ faults \in Nat
  <2>1. FileInv
    BY DEF Inv
  <2>2. faults \in Nat
    BY MasterTypes
  <2> QED BY <2>1, <2>2, LoadsTypes
<1>2. CASE file' = file /\ (Spend(l.cost) \/ Spend(l.cost + 1))
  BY <1>1, <1>2, Written DEF Spend
<1>3. CASE r.ends = "saved" /\ file' = r.doc /\ Spend(l.cost)
  BY <1>1, <1>3, Written DEF Spend
<1>4. CASE InterruptedSave(r, l.cost)
  <2>1. r.ends = "saved" /\ file' \in Cuts(r.doc) /\ faults' > faults /\ faults' >= faults
    BY <1>1, <1>4 DEF InterruptedSave, Spend
  <2>2. BookOf(file') \in Book!Beginnings(BookOf(r.doc))
    BY <2>1, CutBook
  <2> QED BY <2>1, <2>2, Written
<1> QED BY <1>2, <1>3, <1>4 DEF SaveFile, NullDereference

(* A step that writes the book as it is. *)
LEMMA Rewrites ==
    ASSUME Book!Write(BookOf(file)), BookClock' = BookClock
    PROVE  Book!Next
  BY DEF Book!Next, Book!Rewrite, BookClock

(* A step that leaves it empty. *)
LEMMA Empties ==
    ASSUME Book!Write(<<>>), BookClock' = BookClock
    PROVE  Book!Next
  BY DEF Book!Next, Book!EraseAll, BookClock

(* Every handler that calls a method is a step of the book if what is saved is. *)
LEMMA BookCalling ==
    ASSUME Inv, NEW l \in Loads, NEW r, r.ends = "saved" => r.doc \in Document,
           SaveFile(r, l.cost) \/ InterruptedSave(r, l.cost) \/ NullDereference(r, l.cost),
           BookClock' = BookClock,
           r.ends = "saved" /\ Book!Write(BookOf(r.doc)) => Book!Next
    PROVE  Book!Next
  BY SavingWrites, Rewrites

(* The clock of the book stands still. *)
LEMMA ClockStays ==
    ASSUME phase # "dating", phase' # "dating", clock' = clock
    PROVE  BookClock' = BookClock
  BY DEF BookClock

(* A file that is not touched is a book that is not. *)
LEMMA BookAside ==
    ASSUME Inv, file' = file, faults' >= faults, BookClock' = BookClock
    PROVE  Book!Next
  BY Written, Rewrites
-----------------------------------------------------------------------------
(* OnBtnOKClicked, OnBtnConsulterClicked, OnSend. *)
LEMMA BookReads ==
    ASSUME Inv, SavedInv, NEW l \in Loads, NEW date, NEW r,
           r = getUneConfigEnregistree(l.doc, date) \/ r = recuperer_AdrIPXML(l.doc, date),
           SaveFile(r, l.cost) \/ InterruptedSave(r, l.cost) \/ NullDereference(r, l.cost),
           BookClock' = BookClock
    PROVE  Book!Next
<1>1. /\ r.ends = "saved" => r.doc \in Document
      /\ r.ends = "saved" => r.doc.configs = l.doc.configs
  BY ReadsRight DEF SavedInv, Right
<1>2. ASSUME r.ends = "saved", Book!Write(BookOf(r.doc))
      PROVE  Book!Next
  <2>1. BookOf(r.doc) = BookIn(l.doc.configs)
    BY <1>1, <1>2, BookOfIs
  <2>2. CASE l.doc = file
    <3>1. BookOf(r.doc) = BookOf(file)
      BY <2>1, <2>2, BookOfIs
    <3> QED BY <1>2, <3>1, Rewrites
  <2>3. CASE l.doc = EmptyDocument
    <3>1. BookOf(r.doc) = <<>>
      BY <2>1, <2>3, BookOfIs, EmptyBook
    <3> QED BY <1>2, <3>1, Empties
  <2> QED BY <2>2, <2>3 DEF Loads
<1> QED BY <1>1, <1>2, BookCalling

(* effacerUneConfigEnregistree leaves the book without one entry. *)
LEMMA ErasedBook ==
    ASSUME NEW d \in Document, NEW date,
           NEW r, r = effacerUneConfigEnregistree(d, date), r.ends = "saved"
    PROVE  /\ r.doc \in Document /\ d.configs # <<>>
           /\ \E k \in DOMAIN BookOf(d) :
                  BookOf(r.doc)
                    = SubSeq(BookOf(d), 1, k - 1) \o SubSeq(BookOf(d), k + 1, Len(BookOf(d)))
<1> DEFINE cs == d.configs
           k == First(At(d, date))
           left == SubSeq(cs, 1, k - 1) \o SubSeq(cs, k + 1, Len(cs))
           e == [d EXCEPT !.configs = SubSeq(@, 1, k - 1) \o SubSeq(@, k + 1, Len(@))]
<1>1. r = Saved(e) /\ Holds(d, date)
  BY DEF effacerUneConfigEnregistree, Fatal, Unsaved
<1>2. cs \in Seq(Config) /\ k \in DOMAIN cs
  BY <1>1, PlaceOf DEF Document
<1> HIDE DEF k
<1>3. left \in Seq(Config)
  BY <1>2, Without
<1>4. e \in Document /\ e.configs = left
  BY <1>3 DEF Document
<1>5. r.doc \in Document /\ r.doc.configs = left
  <2> HIDE DEF e, left
  <2> QED BY <1>1, <1>4, SavedIs
<1>6. BookOf(r.doc) = BookIn(left) /\ BookOf(d) = BookIn(cs)
  <2> HIDE DEF left
  <2> QED BY <1>5, BookOfIs
<1>7. BookIn(left) = SubSeq(BookIn(cs), 1, k - 1) \o SubSeq(BookIn(cs), k + 1, Len(BookIn(cs)))
  BY <1>2, BookWithout
<1> HIDE DEF left, cs
<1>8. k \in DOMAIN BookIn(cs) /\ cs # <<>>
  BY <1>2, BookIs
<1> QED BY <1>5, <1>6, <1>7, <1>8 DEF cs

(* OnBtnEffacerClicked. *)
LEMMA BookErases ==
    ASSUME Inv, SavedInv, NEW date \in Dates, OnBtnEffacerClicked(date)
    PROVE  Book!Next
<1> DEFINE r(l) == effacerUneConfigEnregistree(l.doc, date)
<1>1. PICK l \in Loads :
          \/ SaveFile(r(l), l.cost) /\ phase' = phase /\ clock' = clock
          \/ InterruptedSave(r(l), l.cost) /\ Ends(FALSE)
          \/ NullDereference(r(l), l.cost) /\ Ends(TRUE)
  BY DEF OnBtnEffacerClicked, Call, ghostVars
<1>2. BookClock' = BookClock
  BY <1>1, ClockStays DEF OnBtnEffacerClicked, Selects, Ends
<1>3. l.doc \in Document /\ (l.doc = file \/ l.doc = EmptyDocument)
  BY LoadsTypes DEF Inv, Loads
<1>4. ASSUME r(l).ends = "saved", Book!Write(BookOf(r(l).doc))
      PROVE  Book!Next
  <2>1. l.doc.configs # <<>>
    BY <1>3, <1>4, ErasedBook
  <2>2. l.doc = file
    BY <1>3, <2>1 DEF EmptyDocument
  <2>3. PICK k \in DOMAIN BookOf(file) :
            BookOf(r(l).doc)
              = SubSeq(BookOf(file), 1, k - 1) \o SubSeq(BookOf(file), k + 1, Len(BookOf(file)))
    <3>1. \E k \in DOMAIN BookOf(l.doc) :
              BookOf(r(l).doc)
                = SubSeq(BookOf(l.doc), 1, k - 1) \o SubSeq(BookOf(l.doc), k + 1, Len(BookOf(l.doc)))
      BY <1>3, <1>4, ErasedBook
    <3> HIDE DEF r
    <3> QED BY <2>2, <3>1
  <2>4. Book!Write(SubSeq(BookOf(file), 1, k - 1)
                     \o SubSeq(BookOf(file), k + 1, Len(BookOf(file))))
    BY <1>4, <2>3
  <2> HIDE DEF r
  <2> QED BY <1>2, <2>4 DEF Book!Next, Book!Erase, BookClock
<1>5. r(l).ends = "saved" => r(l).doc \in Document
  BY <1>3, ErasedBook
<1> HIDE DEF r
<1> QED BY <1>1, <1>2, <1>4, <1>5, BookCalling

(* OnBtnEffacerToutClicked. *)
LEMMA BookErasesAll ==
    ASSUME Inv, SavedInv, OnBtnEffacerToutClicked
    PROVE  Book!Next
<1> DEFINE r(l) == effacerToutesLesConfig(l.doc)
<1>1. PICK l \in Loads :
          \/ SaveFile(r(l), l.cost) /\ phase' = phase /\ clock' = clock
          \/ InterruptedSave(r(l), l.cost) /\ Ends(FALSE)
          \/ NullDereference(r(l), l.cost) /\ Ends(TRUE)
  BY DEF OnBtnEffacerToutClicked, Call, ghostVars
<1>2. BookClock' = BookClock
  BY <1>1, ClockStays DEF OnBtnEffacerToutClicked, Ends
<1>3. r(l).doc \in Document /\ r(l).doc.configs = <<>>
  <2>1. BlankDocument \in Document /\ BlankDocument.configs = <<>>
    BY DEF BlankDocument, Document
  <2> QED BY <2>1, SavedIs DEF effacerToutesLesConfig
<1> HIDE DEF r
<1>4. BookOf(r(l).doc) = <<>>
  BY <1>3, BookOfIs, EmptyBook
<1>5. ASSUME r(l).ends = "saved", Book!Write(BookOf(r(l).doc))
      PROVE  Book!Next
  BY <1>2, <1>4, <1>5, Empties
<1> QED BY <1>1, <1>2, <1>3, <1>5, BookCalling
-----------------------------------------------------------------------------
(* Another date, whatever becomes of it. *)
LEMMA BookDates ==
    ASSUME Inv, SavedInv, phase = "dating", phase' # "dating", clock' = clock
    PROVE  BookClock' \in Dates /\ BookClock' > BookClock /\ BookClock' = derniere_date
<1>1. BookClock = clock - 1 /\ BookClock' = clock /\ clock = derniere_date
  BY DEF BookClock, SavedInv, RecordSide
<1> QED BY <1>1, MasterTypes DEF Busy, Dates

(* The date is used for nothing. *)
LEMMA BookWastes ==
    ASSUME Inv, SavedInv, phase = "dating", phase' # "dating", clock' = clock,
           Book!Write(BookOf(file))
    PROVE  Book!Next
  BY BookDates DEF Book!Next, Book!DateUnused, BookClock

(* creerConfig opens an entry. *)
LEMMA CreatedBook ==
    ASSUME NEW d \in Document, NEW date \in Dates,
           NEW r, r = creerConfig(d, date), r.ends = "saved"
    PROVE  /\ r.doc \in Document /\ d.root
           /\ r.doc.configs = Append(d.configs, [date |-> date, users |-> <<>>])
           /\ BookOf(r.doc) = Append(BookOf(d), [date |-> date, users |-> <<>>])
<1> DEFINE cs == d.configs
           c == [date |-> date, users |-> <<>>]
           e == [d EXCEPT !.configs = Append(@, c)]
           ds == Append(cs, c)
<1>1. d.root /\ r = Saved(e)
  BY DEF creerConfig, Fatal
<1>2. c \in Config /\ EntryOf(c) = c
  <2>1. <<>> \in Seq(User)
    OBVIOUS
  <2>2. AddressesIn(<<>>) = <<>>
    BY DEF AddressesIn
  <2> QED BY <2>1, <2>2 DEF Config, EntryOf
<1> HIDE DEF c
<1>3. cs \in Seq(Config)
  BY DEF Document
<1>4. e \in Document /\ e.configs = ds
  BY <1>1, <1>2, <1>3 DEF Document
<1>5. r.doc.configs = ds /\ r.doc \in Document
  <2> HIDE DEF e, ds
  <2> QED BY <1>1, <1>4, SavedIs
<1>6. BookIn(ds) = Append(BookIn(cs), c)
  BY <1>2, <1>3, BookAppended
<1>7. BookOf(r.doc) = BookIn(ds) /\ BookOf(d) = BookIn(cs)
  <2> HIDE DEF ds
  <2> QED BY <1>5, BookOfIs
<1> HIDE DEF ds
<1>8. BookOf(r.doc) = Append(BookOf(d), c)
  BY <1>6, <1>7
<1> QED BY <1>1, <1>5, <1>8 DEF c, ds, cs

(* CreateConfig. *)
LEMMA BookCreates ==
    ASSUME Inv, SavedInv, CreateConfig
    PROVE  Book!Next
<1> DEFINE r(l) == creerConfig(l.doc, derniere_date)
<1>1. PICK l \in Loads :
          \/ SaveFile(r(l), l.cost) /\ phase' = "recording" /\ clock' = clock
          \/ InterruptedSave(r(l), l.cost) /\ Ends(FALSE)
          \/ NullDereference(r(l), l.cost) /\ Ends(TRUE)
  BY DEF CreateConfig, Call, ghostVars
<1>2. phase = "dating" /\ phase' # "dating" /\ clock' = clock
  BY <1>1 DEF CreateConfig, Ends
<1>3. l.doc \in Document /\ (l.doc = file \/ l.doc = EmptyDocument)
  BY LoadsTypes DEF Inv, Loads
<1>4. derniere_date \in Dates
  BY <1>2, MasterTypes DEF Busy
<1>5. r(l).ends = "saved" => r(l).doc \in Document
  BY <1>3, <1>4, CreatedBook
<1>6. ASSUME r(l).ends = "saved", Book!Write(BookOf(r(l).doc))
      PROVE  Book!Next
  <2>1. l.doc.root
    BY <1>3, <1>4, <1>6, CreatedBook
  <2>2. l.doc = file
    BY <1>3, <2>1 DEF EmptyDocument
  <2>3. BookOf(r(l).doc) = Append(BookOf(file), [date |-> derniere_date, users |-> <<>>])
    BY <1>3, <1>4, <1>6, <2>2, CreatedBook
  <2> HIDE DEF r
  <2>4. Book!Write(Append(BookOf(file), [date |-> BookClock', users |-> <<>>]))
    BY <1>2, <1>6, <2>3, BookDates
  <2>5. BookClock' \in Dates /\ BookClock' > BookClock
    BY <1>2, BookDates
  <2> QED BY <2>4, <2>5 DEF Book!Next, Book!Open, BookClock
<1> HIDE DEF r
<1>7. Book!Write(BookOf(file)) \/ (r(l).ends = "saved" /\ Book!Write(BookOf(r(l).doc)))
  BY <1>1, <1>5, SavingWrites
<1> QED BY <1>2, <1>6, <1>7, BookWastes

(* No other configuration than the last one has this date. *)
OnlyLast(cs, date) == \A k \in DOMAIN cs : cs[k].date = date => k = Len(cs)

(* ajouterUser adds a machine to the entry with the date: the last one. *)
LEMMA AddedBook ==
    ASSUME NEW d \in Document, NEW date \in Dates, NEW m \in Machines,
           OnlyLast(d.configs, date),
           NEW r, r = ajouterUser(d, date, m), r.ends = "saved"
    PROVE  /\ r.doc \in Document /\ BookOf(d) # <<>> /\ d.whole
           /\ BookOf(r.doc) = [BookOf(d) EXCEPT ![Len(BookOf(d))].users = Append(@, m)]
           /\ OnlyLast(r.doc.configs, date)
<1> DEFINE cs == d.configs
           b == BookIn(cs)
           k == First(At(d, date))
           c == [cs[k] EXCEPT !.users = Append(@, FullUser(m))]
           e == [d EXCEPT !.configs[k].users = Append(@, FullUser(m))]
           ds == [cs EXCEPT ![k] = c]
           w == [b EXCEPT ![k].users = Append(@, m)]
<1>1. r = Saved(e) /\ Holds(d, date) /\ d.whole
  BY DEF ajouterUser, Fatal, Unsaved
<1>2. k \in DOMAIN cs /\ cs \in Seq(Config) /\ cs[k].date = date
  BY <1>1, PlaceOf DEF Document
<1>3. k = Len(cs)
  BY <1>2 DEF OnlyLast
<1> HIDE DEF k
<1>4. cs[k] \in Config /\ cs[k].users \in Seq(User)
  BY <1>2, ConfigAt
<1>5. c \in Config /\ c.date = date /\ c.users = Append(cs[k].users, FullUser(m))
  <2>1. c \in Config
    BY <1>4, OneMore
  <2> QED BY <1>2, <1>4, <2>1 DEF Config
<1>6. e = [d EXCEPT !.configs = ds]
  BY <1>2 DEF Document
<1> HIDE DEF c, e
<1>7. ds \in Seq(Config)
  BY <1>2, <1>5, Cutting
<1>8. e \in Document /\ e.configs = ds
  BY <1>6, <1>7 DEF Document
<1>9. r.doc.configs = ds /\ r.doc \in Document
  <2> HIDE DEF ds
  <2> QED BY <1>1, <1>8, SavedIs
<1>10. /\ DOMAIN ds = DOMAIN cs /\ ds[k] = c /\ \A j \in DOMAIN cs : j # k => ds[j] = cs[j]
       /\ Len(ds) = Len(cs)
  BY <1>2
<1>11. b \in Seq(Entry) /\ Len(b) = Len(cs) /\ DOMAIN b = DOMAIN cs /\ DOMAIN cs = 1 .. Len(cs)
       /\ Len(cs) \in Nat /\ \A j \in 1 .. Len(cs) : b[j] = EntryOf(cs[j])
  BY <1>2, BookIs
<1> HIDE DEF b
<1>12. EntryOf(c) = [b[k] EXCEPT !.users = Append(@, m)] /\ EntryOf(c) \in Entry
  <2>1. AddressesIn(c.users) = Append(AddressesIn(cs[k].users), m)
    BY <1>4, <1>5, AddressesOneMore
  <2>2. b[k] = [date |-> date, users |-> AddressesIn(cs[k].users)]
    <3>1. b[k] = EntryOf(cs[k])
      BY <1>2, <1>11
    <3> QED BY <1>2, <3>1 DEF EntryOf
  <2>3. EntryOf(c) = [date |-> date, users |-> Append(AddressesIn(cs[k].users), m)]
    <3> HIDE DEF b
    <3> QED BY <1>5, <2>1 DEF EntryOf
  <2>4. EntryOf(c) = [b[k] EXCEPT !.users = Append(@, m)]
    BY <2>2, <2>3
  <2>5. EntryOf(c) \in Entry
    BY <1>5, EntryIs
  <2> QED BY <2>4, <2>5
<1>13. w = [b EXCEPT ![k] = EntryOf(c)]
  BY <1>12
<1> HIDE DEF w
<1>14. w \in Seq(Entry) /\ Len(w) = Len(cs) /\ w[k] = EntryOf(c)
       /\ \A j \in DOMAIN cs : j # k => w[j] = b[j]
  <2>1. w \in Seq(Entry)
    BY <1>2, <1>11, <1>12, <1>13, Cutting
  <2> QED BY <1>2, <1>11, <1>13, <2>1
<1> HIDE DEF ds, cs
<1>15. \A j \in 1 .. Len(ds) : w[j] = EntryOf(ds[j])
  <2> TAKE j \in 1 .. Len(ds)
  <2>1. j \in DOMAIN cs /\ j \in 1 .. Len(cs)
    BY <1>10, <1>11
  <2>2. CASE j = k
    BY <1>10, <1>14, <2>2
  <2>3. CASE j # k
    BY <1>10, <1>11, <1>14, <2>1, <2>3
  <2> QED BY <2>2, <2>3
<1>16. BookIn(ds) = w
  BY <1>7, <1>10, <1>14, <1>15, BookSame
<1>17. BookOf(r.doc) = w /\ BookOf(d) = b
  BY <1>9, <1>16, BookOfIs DEF b, cs
<1>18. b # <<>>
  BY <1>2, <1>11
<1>19. OnlyLast(ds, date)
  <2>1. OnlyLast(cs, date)
    BY DEF cs
  <2>2. \A j \in DOMAIN ds : ds[j].date = date => j = Len(ds)
    BY <1>3, <1>10, <2>1 DEF OnlyLast, cs
  <2> QED BY <2>2 DEF OnlyLast
<1> QED BY <1>1, <1>3, <1>9, <1>11, <1>17, <1>18, <1>19 DEF w, cs

(* RecordUser. *)
LEMMA BookRecords ==
    ASSUME Inv, SavedInv, LastOpen, RecordUser
    PROVE  Book!Next
<1> DEFINE m == config[next]
           r(l) == ajouterUser(l.doc, derniere_date, m)
<1>1. PICK l \in Loads :
          \/ SaveFile(r(l), l.cost) /\ phase' = phase /\ clock' = clock
          \/ InterruptedSave(r(l), l.cost) /\ Ends(FALSE)
          \/ NullDereference(r(l), l.cost) /\ Ends(TRUE)
  BY DEF RecordUser, Call, ghostVars
<1>2. phase = "recording" /\ BookClock' = BookClock
  BY <1>1, ClockStays DEF RecordUser, Ends
<1>3. l.doc \in Document /\ (l.doc = file \/ l.doc = EmptyDocument)
  BY LoadsTypes DEF Inv, Loads
<1>4. derniere_date \in Dates
  BY <1>2, MasterTypes DEF Busy
<1>5. m \in Machines
  <2>1. config \in Seq(Machines) /\ next \in Nat /\ next <= Len(config) /\ next # 0
    BY MasterTypes DEF RecordUser, Inv, Rest, Recording
  <2> QED BY <2>1
<1> HIDE DEF m
<1>6. OnlyLast(l.doc.configs, derniere_date)
  <2>1. OnlyLast(<<>>, derniere_date)
    BY DEF OnlyLast
  <2> QED BY <1>2, <1>3, <2>1 DEF LastOpen, OnlyLast, EmptyDocument
<1>7. r(l).ends = "saved" => r(l).doc \in Document
  BY <1>3, <1>4, <1>5, <1>6, AddedBook
<1>8. ASSUME r(l).ends = "saved", Book!Write(BookOf(r(l).doc))
      PROVE  Book!Next
  <2>1. l.doc.whole
    BY <1>3, <1>4, <1>5, <1>6, <1>8, AddedBook
  <2>2. l.doc = file
    BY <1>3, <2>1 DEF EmptyDocument
  <2>3. /\ BookOf(file) # <<>>
        /\ BookOf(r(l).doc) = [BookOf(file) EXCEPT ![Len(BookOf(file))].users = Append(@, m)]
    BY <1>3, <1>4, <1>5, <1>6, <1>8, <2>2, AddedBook
  <2> HIDE DEF r
  <2>4. Book!Write([BookOf(file) EXCEPT ![Len(BookOf(file))].users = Append(@, m)])
    BY <1>8, <2>3
  <2> QED BY <1>2, <1>5, <2>3, <2>4 DEF Book!Next, Book!Add, BookClock
<1> HIDE DEF r
<1> QED BY <1>1, <1>2, <1>7, <1>8, BookCalling
-----------------------------------------------------------------------------
(* Only two handlers change the file while a configuration is recorded. *)
LEMMA WhileRecording ==
    ASSUME [Next]_vars, phase' = "recording"
    PROVE  CreateConfig \/ RecordUser \/ UNCHANGED <<file, phase, derniere_date>>
<1>1. CASE UNCHANGED vars
  BY <1>1 DEF vars, fileVars, masterVars
<1>2. CASE Start \/ Quit
  BY <1>2 DEF Start, Quit, Ends
<1>3. CASE OnConfigReseau \/ OnClose
  BY <1>3 DEF OnConfigReseau, OnClose
<1>4. CASE OnBtnClicked
  <2>1. ASSUME NEW date \in Dates, OnBtnOKClicked(date) PROVE FALSE
    BY <2>1 DEF OnBtnOKClicked, Selects, Call, Ends
  <2>2. ASSUME NEW date \in Dates, OnBtnConsulterClicked(date) PROVE FALSE
    BY <2>2 DEF OnBtnConsulterClicked, Selects, Call, Ends, masterVars
  <2>3. ASSUME NEW date \in Dates, OnBtnEffacerClicked(date) PROVE FALSE
    BY <2>3 DEF OnBtnEffacerClicked, Selects, Call, Ends
  <2>4. ASSUME OnBtnEffacerToutClicked PROVE FALSE
    BY <2>4 DEF OnBtnEffacerToutClicked, Call, Ends
  <2>5. ASSUME NEW reached \in SUBSET Asked, OnBtnRechercherClicked(reached) PROVE FALSE
    BY <2>5 DEF OnBtnRechercherClicked
  <2> QED BY <1>4, <2>1, <2>2, <2>3, <2>4, <2>5 DEF OnBtnClicked
<1>5. CASE OnSend
  <2>1. ASSUME NEW named \in BOOLEAN, NEW picked \in BOOLEAN, NothingToSend(named, picked)
        PROVE  FALSE
    BY <2>1 DEF NothingToSend
  <2>2. ASSUME NEW v \in Videos, SendToFound(v) PROVE FALSE
    BY <2>2 DEF SendToFound, tftpSend
  <2>3. ASSUME NEW v \in Videos, SendToStored(v) PROVE FALSE
    BY <2>3 DEF SendToStored, Call, tftpSend, Ends
  <2> QED BY <1>5, <2>1, <2>2, <2>3 DEF OnSend
<1>6. CASE Search
  <2>1. ASSUME NEW reached \in SUBSET Asked, AskAgain(reached) PROVE FALSE
    BY <2>1 DEF AskAgain
  <2>2. ASSUME ShowFound PROVE FALSE
    BY <2>2 DEF ShowFound
  <2>3. ASSUME ScanLeavesBuffer PROVE FALSE
    BY <2>3 DEF ScanLeavesBuffer, Ends
  <2>4. ASSUME ecouter PROVE FALSE
    BY <2>4 DEF ecouter, masterVars
  <2> QED BY <1>6, <2>1, <2>2, <2>3, <2>4 DEF Search
<1>7. CASE Answer
  BY <1>7 DEF Answer, DoNotSave, CannotSave, Unrecorded, TakeDate, UseFound, DoNotUse, MessageRead
<1>8. CASE Record
  BY <1>8 DEF Record, Recorded
<1>9. CASE Network
  BY <1>9 DEF Network, fileVars, masterVars
<1> QED BY <1>1, <1>2, <1>3, <1>4, <1>5, <1>6, <1>7, <1>8, <1>9 DEF Next

(* The last configuration stays the one that is recorded. *)
LEMMA LastStays ==
    ASSUME Inv, SavedInv, LastOpen, [Next]_vars
    PROVE  LastOpen'
<1> SUFFICES ASSUME phase' = "recording"
             PROVE  OnlyLast(file'.configs, derniere_date')
  BY DEF LastOpen, OnlyLast
<1>1. CASE UNCHANGED <<file, phase, derniere_date>>
  BY <1>1 DEF LastOpen, OnlyLast
<1>2. CASE CreateConfig
  <2> DEFINE r(l) == creerConfig(l.doc, derniere_date)
  <2>1. /\ derniere_date' = derniere_date /\ phase = "dating"
        /\ \E l \in Loads : SaveFile(r(l), l.cost)
    BY <1>2 DEF CreateConfig, Call, Ends
  <2>2. PICK l \in Loads : SaveFile(r(l), l.cost)
    BY <2>1
  <2>3. derniere_date \in Dates /\ file.configs \in Seq(Config)
    BY <2>1, MasterTypes DEF Busy
  <2>4. \A k \in DOMAIN file.configs : file.configs[k].date # derniere_date
    BY <2>1 DEF SavedInv, FileSide
  <2>5. CASE file' = file
    BY <2>1, <2>4, <2>5 DEF OnlyLast
  <2>6. CASE r(l).ends = "saved" /\ file' = r(l).doc
    <3>1. l.doc \in Document /\ (l.doc = file \/ l.doc = EmptyDocument)
      BY LoadsTypes DEF Inv, Loads
    <3>2. /\ l.doc.root
          /\ r(l).doc.configs = Append(l.doc.configs, [date |-> derniere_date, users |-> <<>>])
      BY <2>3, <2>6, <3>1, CreatedBook
    <3>3. l.doc = file
      BY <3>1, <3>2 DEF EmptyDocument
    <3> DEFINE c == [date |-> derniere_date, users |-> <<>>]
               ds == Append(file.configs, c)
    <3>4. file'.configs = ds
      BY <2>6, <3>2, <3>3
    <3>5. c \in Config
      <4>1. <<>> \in Seq(User)
        OBVIOUS
      <4> QED BY <2>3, <4>1 DEF Config
    <3> HIDE DEF c
    <3>6. OneMoreIs(Config, file.configs, c, ds)
      BY <2>3, <3>5, AppendIs
    <3> HIDE DEF ds
    <3>7. DOMAIN ds = 1 .. Len(ds)
      BY <3>6, PlacesOf DEF OneMoreIs
    <3>8. DOMAIN file.configs = 1 .. Len(file.configs)
      BY <2>3, PlacesOf
    <3>9. \A k \in DOMAIN ds : ds[k].date = derniere_date => k = Len(ds)
      BY <2>4, <3>6, <3>7, <3>8 DEF OneMoreIs
    <3> QED BY <2>1, <3>4, <3>9 DEF OnlyLast
  <2> HIDE DEF r
  <2> QED BY <2>2, <2>5, <2>6 DEF SaveFile
<1>3. CASE RecordUser
  <2> DEFINE m == config[next]
             r(l) == ajouterUser(l.doc, derniere_date, m)
  <2>1. /\ derniere_date' = derniere_date /\ phase = "recording"
        /\ \E l \in Loads : SaveFile(r(l), l.cost)
    BY <1>3 DEF RecordUser, Call, Ends
  <2>2. PICK l \in Loads : SaveFile(r(l), l.cost)
    BY <2>1
  <2>3. derniere_date \in Dates
    BY <2>1, MasterTypes DEF Busy
  <2>4. m \in Machines
    <3>1. config \in Seq(Machines) /\ next \in Nat /\ next <= Len(config) /\ next # 0
      BY <1>3, MasterTypes DEF RecordUser, Inv, Rest, Recording
    <3> QED BY <3>1
  <2> HIDE DEF m
  <2>5. OnlyLast(file.configs, derniere_date) /\ OnlyLast(<<>>, derniere_date)
    BY <2>1 DEF LastOpen, OnlyLast
  <2>6. CASE file' = file
    BY <2>1, <2>5, <2>6
  <2>7. CASE r(l).ends = "saved" /\ file' = r(l).doc
    <3>0. l.doc \in Document /\ (l.doc = file \/ l.doc = EmptyDocument)
      BY LoadsTypes DEF Inv, Loads
    <3>1. OnlyLast(l.doc.configs, derniere_date)
      BY <2>5, <3>0 DEF EmptyDocument
    <3>2. OnlyLast(r(l).doc.configs, derniere_date)
      BY <2>3, <2>4, <2>7, <3>0, <3>1, AddedBook
    <3> QED BY <2>1, <2>7, <3>2
  <2> HIDE DEF r
  <2> QED BY <2>2, <2>6, <2>7 DEF SaveFile
<1> QED BY <1>1, <1>2, <1>3, WhileRecording
-----------------------------------------------------------------------------
(* Handlers that ask LoadFile for what they show, or for what they send to. *)
LEMMA BookConsults ==
    ASSUME Inv, SavedInv, NEW date \in Dates,
           OnBtnOKClicked(date) \/ OnBtnConsulterClicked(date)
    PROVE  Book!Next
<1> DEFINE r(l) == getUneConfigEnregistree(l.doc, date)
<1>1. PICK l \in Loads :
          \/ SaveFile(r(l), l.cost) /\ phase' = phase /\ clock' = clock
          \/ InterruptedSave(r(l), l.cost) /\ Ends(FALSE)
          \/ NullDereference(r(l), l.cost) /\ Ends(TRUE)
  BY DEF OnBtnOKClicked, OnBtnConsulterClicked, Call, ghostVars, masterVars
<1>2. BookClock' = BookClock
  BY <1>1, ClockStays DEF OnBtnOKClicked, OnBtnConsulterClicked, Selects, Ends
<1>3. \/ SaveFile(r(l), l.cost) \/ InterruptedSave(r(l), l.cost)
      \/ NullDereference(r(l), l.cost)
  BY <1>1
<1> QED BY <1>2, <1>3, BookReads

(* OnSend, to a configuration in the file. *)
LEMMA BookSends ==
    ASSUME Inv, SavedInv, NEW v \in Videos, SendToStored(v)
    PROVE  Book!Next
<1> DEFINE r(l) == recuperer_AdrIPXML(l.doc, config_choisie)
<1>1. PICK l \in Loads :
          \/ SaveFile(r(l), l.cost) /\ phase' = "told" /\ clock' = clock
          \/ InterruptedSave(r(l), l.cost) /\ Ends(FALSE)
          \/ NullDereference(r(l), l.cost) /\ Ends(TRUE)
  BY DEF SendToStored, Call, ghostVars, tftpSend
<1>2. BookClock' = BookClock
  BY <1>1, ClockStays DEF SendToStored, Ends
<1>3. \/ SaveFile(r(l), l.cost) \/ InterruptedSave(r(l), l.cost)
      \/ NullDereference(r(l), l.cost)
  BY <1>1
<1> QED BY <1>2, <1>3, BookReads

(* The process ends or begins; a date that was taken is lost with it. *)
LEMMA BookEnds ==
    ASSUME Inv, SavedInv, Start \/ Quit
    PROVE  Book!Next
<1>1. faults \in Nat
  BY MasterTypes
<1>2. file' = file /\ faults' >= faults /\ clock' = clock
  <2>1. CASE Quit
    BY <1>1, <2>1 DEF Quit, Ends, Spend, fileVars
  <2>2. CASE Start
    <3>1. PICK l \in Loads : Spend(l.cost) /\ file' = file
      BY <2>2 DEF Start
    <3>2. l.cost \in Nat
      BY LoadsTypes DEF Inv
    <3> QED BY <1>1, <2>2, <3>1, <3>2 DEF Start, Spend
  <2> QED BY <2>1, <2>2
<1>3. phase' # "dating"
  BY DEF Start, Quit, Ends
<1>4. CASE phase = "dating"
  <2>1. Book!Write(BookOf(file))
    BY <1>2, Written
  <2> QED BY <1>2, <1>3, <1>4, <2>1, BookWastes
<1>5. CASE phase # "dating"
  BY <1>2, <1>3, <1>5, ClockStays, BookAside
<1> QED BY <1>4, <1>5

(* Everything else leaves the book and its clock alone. *)
LEMMA BookUntouched ==
    ASSUME Inv, SavedInv, UNCHANGED fileVars,
           \/ UNCHANGED vars \/ OnConfigReseau \/ OnClose
           \/ \E reached \in SUBSET Asked : OnBtnRechercherClicked(reached)
           \/ \E named, picked \in BOOLEAN : NothingToSend(named, picked)
           \/ \E v \in Videos : SendToFound(v)
           \/ Search \/ Answer \/ Recorded \/ Network
    PROVE  Book!Next
<1>1. faults \in Nat /\ clock \in Nat
  BY MasterTypes
<1>2. file' = file /\ faults' >= faults
  BY <1>1 DEF fileVars
<1>3. CASE UNCHANGED <<phase, clock>>
  BY <1>2, <1>3, BookAside DEF BookClock
<1>4. CASE phase # "dating" /\ phase' # "dating" /\ clock' = clock
  BY <1>2, <1>4, ClockStays, BookAside
<1>5. CASE phase # "dating" /\ phase' = "dating" /\ clock' = clock + 1
  <2>1. BookClock' = BookClock
    BY <1>1, <1>5 DEF BookClock
  <2> QED BY <1>2, <2>1, BookAside
<1>6. CASE UNCHANGED vars \/ Network
  BY <1>3, <1>6 DEF vars, Network, masterVars, ghostVars
<1>7. CASE OnConfigReseau \/ OnClose
  BY <1>3, <1>7 DEF OnConfigReseau, OnClose, ghostVars
<1>8. ASSUME NEW reached \in SUBSET Asked, OnBtnRechercherClicked(reached)
      PROVE  Book!Next
  BY <1>4, <1>8 DEF OnBtnRechercherClicked, ghostVars
<1>9. ASSUME NEW named \in BOOLEAN, NEW picked \in BOOLEAN, NothingToSend(named, picked)
      PROVE  Book!Next
  BY <1>4, <1>9 DEF NothingToSend, ghostVars
<1>10. ASSUME NEW v \in Videos, SendToFound(v)
       PROVE  Book!Next
  BY <1>4, <1>10 DEF SendToFound, tftpSend, ghostVars
<1>11. CASE Search
  <2>1. ASSUME NEW reached \in SUBSET Asked, AskAgain(reached)
        PROVE  Book!Next
    BY <1>4, <2>1 DEF AskAgain, ghostVars
  <2>2. CASE ShowFound
    BY <1>4, <2>2 DEF ShowFound, ghostVars
  <2>3. CASE ScanLeavesBuffer
    BY <1>4, <2>3 DEF ScanLeavesBuffer, Ends
  <2>4. CASE ecouter
    BY <1>3, <2>4 DEF ecouter, masterVars, ghostVars
  <2> QED BY <1>11, <2>1, <2>2, <2>3, <2>4 DEF Search
<1>12. CASE Answer
  <2>1. CASE TakeDate
    BY <1>5, <2>1 DEF TakeDate
  <2>2. CASE DoNotSave \/ CannotSave
    BY <1>4, <2>2 DEF DoNotSave, CannotSave, Unrecorded, ghostVars
  <2>3. CASE UseFound \/ DoNotUse \/ MessageRead
    BY <1>4, <2>3 DEF UseFound, DoNotUse, MessageRead, ghostVars
  <2> QED BY <1>12, <2>1, <2>2, <2>3 DEF Answer
<1>13. CASE Recorded
  BY <1>4, <1>13 DEF Recorded, ghostVars
<1> QED BY <1>6, <1>7, <1>8, <1>9, <1>10, <1>11, <1>12, <1>13

(* Steps that leave the file alone. *)
LEMMA FileUntouched ==
    ASSUME \/ UNCHANGED vars \/ OnConfigReseau \/ OnClose
           \/ \E reached \in SUBSET Asked : OnBtnRechercherClicked(reached)
           \/ \E named, picked \in BOOLEAN : NothingToSend(named, picked)
           \/ \E v \in Videos : SendToFound(v)
           \/ Search \/ Answer \/ Recorded \/ Network
    PROVE  UNCHANGED fileVars
<1>1. Search => UNCHANGED fileVars
  BY DEF Search, ecouter, ScanLeavesBuffer, AskAgain, ShowFound
<1>2. Answer => UNCHANGED fileVars
  BY DEF Answer, DoNotSave, CannotSave, Unrecorded, TakeDate, UseFound, DoNotUse, MessageRead
<1> QED BY <1>1, <1>2 DEF vars, OnConfigReseau, OnClose, OnBtnRechercherClicked, NothingToSend,
           SendToFound, Recorded, Network

(* Every step of the master is a step of the book. *)
LEMMA BookStep ==
    ASSUME BookInv, [Next]_vars
    PROVE  Book!Next
<1> USE DEF BookInv
<1>1. CASE UNCHANGED vars
  BY <1>1, BookUntouched, FileUntouched
<1>2. CASE Start \/ Quit
  BY <1>2, BookEnds
<1>3. CASE OnConfigReseau \/ OnClose
  BY <1>3, BookUntouched, FileUntouched
<1>4. CASE OnBtnClicked
  <2>1. ASSUME NEW reached \in SUBSET Asked, OnBtnRechercherClicked(reached)
        PROVE  Book!Next
    BY <2>1, BookUntouched, FileUntouched
  <2> QED BY <1>4, <2>1, BookConsults, BookErases, BookErasesAll DEF OnBtnClicked
<1>5. CASE OnSend
  <2>1. ASSUME NEW named \in BOOLEAN, NEW picked \in BOOLEAN, NothingToSend(named, picked)
        PROVE  Book!Next
    BY <2>1, BookUntouched, FileUntouched
  <2>2. ASSUME NEW v \in Videos, SendToFound(v)
        PROVE  Book!Next
    BY <2>2, BookUntouched, FileUntouched
  <2> QED BY <1>5, <2>1, <2>2, BookSends DEF OnSend
<1>6. CASE Search \/ Answer \/ Recorded \/ Network
  BY <1>6, BookUntouched, FileUntouched
<1>7. CASE CreateConfig \/ RecordUser
  BY <1>7, BookCreates, BookRecords
<1> QED BY <1>1, <1>2, <1>3, <1>4, <1>5, <1>6, <1>7 DEF Next, Record

(* In the beginning the book holds what the first file holds. *)
LEMMA BookBegins ==
    ASSUME Init
    PROVE  BookInv /\ Book!Init
<1>1. file = InitDocument /\ faults = 0 /\ phase = "idle" /\ clock = Len(InitDocument.configs)
  BY DEF Init, FileInit
<1>2. Len(BookOf(InitDocument)) = Len(InitDocument.configs)
  <2>1. InitDocument.configs \in Seq(Config)
    BY FileAssumption DEF Document
  <2> QED BY <2>1, BookIs, BookOfIs
<1>3. Book!Init
  BY <1>1, <1>2 DEF Book!Init
<1>4. LastOpen
  BY <1>1 DEF LastOpen
<1> QED BY <1>3, <1>4, Begins, SavedInit DEF BookInv

(***************************************************************************)
(* ConfigReseau.xml is a book of configurations: each handler that loads,  *)
(* changes and saves it opens an entry under a date later than all, adds a *)
(* machine to the last one, erases one or all, or leaves it as it is; when *)
(* fopen fails or the process ends in SaveFile, a beginning of it is left. *)
(***************************************************************************)
THEOREM FileIsBook == Spec => KeepsBook
<1>1. Init => BookInv /\ Book!Init
  BY BookBegins
<1>2. BookInv /\ [Next]_vars => BookInv' /\ [Book!Next]_(Book!bookVars)
  BY StepKeeps, SavedStep, LastStays, BookStep DEF BookInv
<1> QED BY <1>1, <1>2, PTL DEF Spec, KeepsBook, Book!Spec
=============================================================================
