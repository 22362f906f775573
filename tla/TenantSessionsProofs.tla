-------------------------- MODULE TenantSessionsProofs --------------------------
(***************************************************************************)
(* Tenant isolation and the uniqueness of a tenant's founder, for any      *)
(* number of requests, tenants and connections, any endpoints, and any     *)
(* number of connections given back with somebody's settings on them; and, *)
(* for endpoints that keep to SessionRules, that nothing is hidden from a  *)
(* request but after a save, and that what it changes is recorded.         *)
(***************************************************************************)
EXTENDS TenantSessions, SessionRules, TLAPS

Session ==
  [todo : Seq(STRING), tenant : Tenant \cup {NoTenant}, conn : Conn \cup {NoConn},
   scope : Scope, seeding : BOOLEAN, claims : BOOLEAN,
   unsaved : {"nothing", "change", "entry"}, owes : BOOLEAN, saved : BOOLEAN,
   hidden : {"never", "after save", "otherwise"}, seen : SUBSET (Scope \X Tenant),
   cut : BOOLEAN]

TypeInv ==
  /\ conn \in [Conn -> Settings]
  /\ req \in [Request -> Session]
  /\ tenants \subseteq Tenant
  /\ catalog \in BOOLEAN
  /\ founders \in [Tenant -> Nat]
  /\ leaks \in Nat

\* What is left of an endpoint still closes its session.
Closes(todo) == todo # <<>> => todo[Len(todo)] = "close"

\* The session of me on connections cn: what its scope promises.
Scoped(me, cn, lk) ==
  /\ Closes(me.todo)
  /\ me.todo # <<>> => me.tenant \in Tenant
  /\ me.conn # NoConn => me.todo # <<>>
  /\ me.conn = NoConn => me.scope = "none" /\ ~me.claims /\ me.seen = {}
  /\ me.conn # NoConn /\ me.scope = "own" => cn[me.conn] = [tenant |-> me.tenant, bypass |-> FALSE]
  /\ me.conn # NoConn /\ me.scope = "none" /\ lk = 0 => cn[me.conn] = Clean
  /\ \A s \in me.seen : s[1] = "own" \/ (s[1] = "none" /\ lk = 0) => s[2] = me.tenant

\* No connection serves two sessions; as long as none leaked, the free ones are clean.
PoolInv ==
  /\ \A r, q \in Request : r # q /\ req[r].conn # NoConn => req[q].conn # req[r].conn
  /\ \A c \in Conn : leaks = 0 /\ (\A r \in Request : req[r].conn # c) => conn[c] = Clean

SessionInv ==
  /\ TypeInv
  /\ \A r \in Request : Scoped(req[r], conn, leaks)
  /\ PoolInv

--------------------------------------------------------------------------------
(* The request records *)

LEMMA IdleIs ==
  /\ Cut \in Session /\ Idle \in Session
  /\ Cut.conn = NoConn /\ Cut.todo = <<>> /\ Cut.scope = "none" /\ Cut.claims = FALSE /\ Cut.seen = {}
  /\ Idle.conn = NoConn /\ Idle.todo = <<>> /\ Idle.scope = "none" /\ Idle.claims = FALSE /\ Idle.seen = {}
<1>1. <<>> \in Seq(STRING) /\ {} \in SUBSET (Scope \X Tenant)
  OBVIOUS
<1>2. Idle \in Session
  BY <1>1 DEF Idle, Incoming, Session, Scope
<1>3. Cut \in Session
  BY <1>2 DEF Cut, Session
<1>4. Idle.conn = NoConn /\ Idle.todo = <<>> /\ Idle.scope = "none" /\ Idle.claims = FALSE /\ Idle.seen = {}
  BY DEF Idle, Incoming
<1>5. Cut.conn = NoConn /\ Cut.todo = <<>> /\ Cut.scope = "none" /\ Cut.claims = FALSE /\ Cut.seen = {}
  BY DEF Cut, Idle, Incoming
<1> QED
  BY <1>2, <1>3, <1>4, <1>5

LEMMA Length ==
  ASSUME NEW s \in Seq(STRING)
  PROVE  Len(s) \in Nat /\ (s # <<>> <=> Len(s) > 0)
OBVIOUS

LEMMA TailCloses ==
  ASSUME NEW todo \in Seq(STRING), todo # <<>>, Closes(todo)
  PROVE  /\ Tail(todo) \in Seq(STRING) /\ Closes(Tail(todo))
         /\ Head(todo) \in STRING
         /\ Head(todo) # "close" => Tail(todo) # <<>>
<1>1. /\ Len(todo) \in Nat /\ Len(todo) >= 1
      /\ Head(todo) = todo[1] /\ todo[Len(todo)] = "close"
      /\ Tail(todo) \in Seq(STRING) /\ Len(Tail(todo)) = Len(todo) - 1
      /\ \A i \in 1..(Len(todo) - 1) : Tail(todo)[i] = todo[i + 1]
  BY DEF Closes
<1>2. Head(todo) \in STRING
  OBVIOUS
<1>3. ASSUME Head(todo) # "close"
      PROVE  Tail(todo) # <<>>
  <2>1. Len(todo) # 1
    BY <1>1, <1>3
  <2>2. Len(Tail(todo)) > 0
    BY <1>1, <2>1
  <2> QED
    BY <1>1, <2>2, Length
<1>4. ASSUME Tail(todo) # <<>>
      PROVE  Tail(todo)[Len(Tail(todo))] = "close"
  <2>1. Len(todo) - 1 \in 1..(Len(todo) - 1)
    BY <1>1, <1>4, Length
  <2> QED
    BY <1>1, <2>1
<1> QED
  BY <1>1, <1>2, <1>3, <1>4 DEF Closes

LEMMA OnwardIs ==
  ASSUME TypeInv, NEW r \in Request, NEW c \in Conn, req[r].todo # <<>>
  PROVE  /\ Onward(r, c) \in Session
         /\ Onward(r, c).todo = Tail(req[r].todo) /\ Onward(r, c).conn = c
         /\ Onward(r, c).tenant = req[r].tenant /\ Onward(r, c).scope = req[r].scope
         /\ Onward(r, c).claims = req[r].claims /\ Onward(r, c).seen = req[r].seen
         /\ Onward(r, c).saved = req[r].saved /\ Onward(r, c).hidden = req[r].hidden
<1>1. req[r] \in Session
  BY DEF TypeInv
<1>2. req[r].todo \in Seq(STRING)
  BY <1>1 DEF Session
<1> DEFINE todo == req[r].todo
<1> HIDE DEF todo
<1>3. todo \in Seq(STRING) /\ todo # <<>> => Tail(todo) \in Seq(STRING)
  OBVIOUS
<1>4. Tail(req[r].todo) \in Seq(STRING)
  BY <1>2, <1>3 DEF todo
<1> QED
  BY <1>1, <1>4 DEF Onward, Session

LEMMA ReleasedIs ==
  ASSUME NEW me \in Session
  PROVE  /\ Released(me) \in Session
         /\ Released(me).todo = me.todo /\ Released(me).conn = NoConn
         /\ Released(me).tenant = me.tenant /\ Released(me).scope = "none"
         /\ Released(me).claims = FALSE /\ Released(me).seen = {}
BY DEF Released, Session, Scope

LEMMA LookingIs ==
  ASSUME NEW me \in Session, NEW c \in Conn, conn \in [Conn -> Settings]
  PROVE  /\ Looking(me, c) \in Session
         /\ Looking(me, c).todo = me.todo /\ Looking(me, c).conn = me.conn
         /\ Looking(me, c).tenant = me.tenant /\ Looking(me, c).scope = me.scope
         /\ Looking(me, c).claims = me.claims
         /\ Looking(me, c).seen = me.seen \cup {<<me.scope, t>> : t \in Visible(c)}
<1>1. Visible(c) \subseteq Tenant
  BY DEF Visible
<1>2. me.scope \in Scope /\ me.seen \in SUBSET (Scope \X Tenant)
  BY DEF Session
<1>3. ASSUME NEW t \in Visible(c)
      PROVE  <<me.scope, t>> \in Scope \X Tenant
  BY <1>1, <1>2
<1>4. me.seen \cup {<<me.scope, t>> : t \in Visible(c)} \in SUBSET (Scope \X Tenant)
  BY <1>2, <1>3
<1> QED
  BY <1>4 DEF Looking, Session

--------------------------------------------------------------------------------
(* The pool *)

\* What holds of a connection a session works on.
LEMMA Working ==
  ASSUME SessionInv, NEW r \in Request, NEW c \in Conn, On(r, c)
  PROVE  /\ req[r].scope = "own" => conn[c] = [tenant |-> req[r].tenant, bypass |-> FALSE]
         /\ req[r].scope = "none" /\ leaks = 0 => conn[c] = Clean
         /\ \A q \in Request : q # r => req[q].conn # c
         /\ req[r].conn # NoConn => c = req[r].conn
<1> USE SessionsAssumption
<1>1. Scoped(req[r], conn, leaks) /\ PoolInv
  BY DEF SessionInv
<1>2. CASE req[r].conn # NoConn
  BY <1>1, <1>2 DEF On, Scoped, PoolInv
<1>3. CASE req[r].conn = NoConn
  <2>1. \A q \in Request : req[q].conn # c
    BY <1>3 DEF On
  <2>2. req[r].scope = "none"
    BY <1>1, <1>3 DEF Scoped
  <2> QED
    BY <1>1, <1>3, <2>1, <2>2 DEF PoolInv
<1> QED
  BY <1>2, <1>3

LEMMA GivenBack ==
  ASSUME TypeInv, NEW c \in Conn \cup {NoConn}, GiveBack(c)
  PROVE  /\ conn' \in [Conn -> Settings] /\ leaks' \in Nat
         /\ \A d \in Conn \ {c} : conn'[d] = conn[d]
         /\ leaks' = 0 => leaks = 0
         /\ c # NoConn /\ leaks' = 0 => conn'[c] = Clean
<1>1. Clean \in Settings
  BY DEF Clean, Settings
<1> QED
  BY <1>1, SessionsAssumption DEF GiveBack, TypeInv

\* A step of r that touches no connection but c, its own, which it goes on to
\* hold or gives back.
LEMMA Frame ==
  ASSUME SessionInv, NEW r \in Request, NEW me \in Session, NEW c \in Conn \cup {NoConn},
         req' = [req EXCEPT ![r] = me], me.conn \in {NoConn, c},
         req[r].conn # NoConn => c = req[r].conn,
         c # NoConn => \A q \in Request : q # r => req[q].conn # c,
         conn' \in [Conn -> Settings], \A d \in Conn \ {c} : conn'[d] = conn[d],
         leaks' \in Nat, leaks' = 0 => leaks = 0,
         me.conn = NoConn /\ c # NoConn /\ leaks' = 0 => conn'[c] = Clean,
         Scoped(me, conn', leaks')
  PROVE  /\ req' \in [Request -> Session]
         /\ \A q \in Request : Scoped(req'[q], conn', leaks')
         /\ PoolInv'
<1> USE SessionsAssumption
<1>1. req \in [Request -> Session] /\ PoolInv /\ \A q \in Request : Scoped(req[q], conn, leaks)
  BY DEF SessionInv, TypeInv
<1>2. /\ req' \in [Request -> Session] /\ req'[r] = me
      /\ \A q \in Request : q # r => req'[q] = req[q]
  BY <1>1
<1>3. ASSUME NEW q \in Request, q # r
      PROVE  Scoped(req[q], conn', leaks')
  <2>1. req[q].conn \in Conn \cup {NoConn}
    BY <1>1 DEF Session
  <2>2. req[q].conn # NoConn => conn'[req[q].conn] = conn[req[q].conn]
    BY <1>3, <2>1
  <2>3. Scoped(req[q], conn, leaks)
    BY <1>1
  <2> QED
    BY <2>2, <2>3 DEF Scoped
<1>4. ASSUME NEW p \in Request, NEW q \in Request, p # q, req'[p].conn # NoConn
      PROVE  req'[q].conn # req'[p].conn
  BY <1>1, <1>2, <1>4 DEF PoolInv
<1>5. ASSUME NEW d \in Conn, leaks' = 0, \A q \in Request : req'[q].conn # d
      PROVE  conn'[d] = Clean
  <2>1. CASE d = c
    BY <1>2, <1>5, <2>1
  <2>2. CASE d # c
    <3>1. \A q \in Request : req[q].conn # d
      BY <1>2, <1>5, <2>2
    <3> QED
      BY <1>1, <1>5, <2>2, <3>1 DEF PoolInv
  <2> QED
    BY <2>1, <2>2
<1> QED
  BY <1>2, <1>3, <1>4, <1>5 DEF PoolInv

\* A step after which r holds c.
LEMMA GoesOn ==
  ASSUME SessionInv, NEW r \in Request, NEW c \in Conn, On(r, c), NEW me \in Session,
         req' = [req EXCEPT ![r] = me], me.conn = c,
         conn' \in [Conn -> Settings], \A d \in Conn \ {c} : conn'[d] = conn[d],
         leaks' = leaks, Scoped(me, conn', leaks)
  PROVE  /\ req' \in [Request -> Session]
         /\ \A q \in Request : Scoped(req'[q], conn', leaks')
         /\ PoolInv'
<1>1. /\ req[r].conn # NoConn => c = req[r].conn
      /\ \A q \in Request : q # r => req[q].conn # c
  BY Working
<1>2. leaks \in Nat
  BY DEF SessionInv, TypeInv
<1>3. c # NoConn
  BY SessionsAssumption
<1> QED
  BY <1>1, <1>2, <1>3, Frame

\* A step after which r holds nothing.
LEMMA LetsGo ==
  ASSUME SessionInv, NEW r \in Request, NEW c \in Conn \cup {NoConn},
         c = req[r].conn \/ (c \in Conn /\ On(r, c)), NEW me \in Session,
         req' = [req EXCEPT ![r] = me],
         me.conn = NoConn, me.scope = "none", me.claims = FALSE, me.seen = {},
         Closes(me.todo), me.todo # <<>> => me.tenant \in Tenant,
         conn' \in [Conn -> Settings], leaks' \in Nat,
         \A d \in Conn \ {c} : conn'[d] = conn[d],
         leaks' = 0 => leaks = 0, c # NoConn /\ leaks' = 0 => conn'[c] = Clean
  PROVE  /\ req' \in [Request -> Session]
         /\ \A q \in Request : Scoped(req'[q], conn', leaks')
         /\ PoolInv'
<1>1. /\ req[r].conn # NoConn => c = req[r].conn
      /\ c # NoConn => \A q \in Request : q # r => req[q].conn # c
  <2>1. CASE c \in Conn /\ On(r, c)
    BY <2>1, Working
  <2>2. CASE c = req[r].conn
    BY <2>2 DEF SessionInv, PoolInv
  <2> QED
    BY <2>1, <2>2
<1>2. Scoped(me, conn', leaks')
  BY DEF Scoped
<1> QED
  BY <1>1, <1>2, Frame

\* What NextIs says of the rest of an endpoint.
LEMMA Rest ==
  ASSUME SessionInv, NEW r \in Request, NEW s, NextIs(r, s)
  PROVE  /\ req[r] \in Session /\ req[r].todo # <<>> /\ req[r].tenant \in Tenant
         /\ Closes(Tail(req[r].todo)) /\ Tail(req[r].todo) \in Seq(STRING)
         /\ s # "close" => Tail(req[r].todo) # <<>>
<1>1. req[r] \in Session /\ Scoped(req[r], conn, leaks)
  BY DEF SessionInv, TypeInv
<1>2. req[r].todo # <<>> /\ Head(req[r].todo) = s
  BY DEF NextIs
<1>3. req[r].todo \in Seq(STRING) /\ req[r].tenant \in Tenant /\ Closes(req[r].todo)
  BY <1>1, <1>2 DEF Session, Scoped
<1> QED
  BY <1>1, <1>2, <1>3, TailCloses

\* r does its next statement on c and keeps its scope; the settings stay.
LEMMA KeepsScope ==
  ASSUME SessionInv, NEW r \in Request, NEW c \in Conn, On(r, c), NEW me \in Session,
         req' = [req EXCEPT ![r] = me], me.conn = c,
         me.todo # <<>>, Closes(me.todo),
         req[r].todo # <<>>, me.tenant = req[r].tenant, me.scope = req[r].scope,
         me.seen = req[r].seen \/ me.seen = req[r].seen \cup {<<req[r].scope, t>> : t \in Visible(c)},
         UNCHANGED <<conn, leaks>>
  PROVE  /\ req' \in [Request -> Session]
         /\ \A q \in Request : Scoped(req'[q], conn', leaks')
         /\ PoolInv'
<1> USE SessionsAssumption
<1>1. Scoped(req[r], conn, leaks) /\ conn \in [Conn -> Settings]
  BY DEF SessionInv, TypeInv
<1>2. /\ req[r].scope = "own" => conn[c] = [tenant |-> req[r].tenant, bypass |-> FALSE]
      /\ req[r].scope = "none" /\ leaks = 0 => conn[c] = Clean
  BY Working
<1>3. req[r].tenant \in Tenant
  BY <1>1 DEF Scoped
<1>4. ASSUME NEW t \in Visible(c),
             req[r].scope = "own" \/ (req[r].scope = "none" /\ leaks = 0)
      PROVE  t = req[r].tenant
  BY <1>2, <1>3, <1>4 DEF Visible, Clean
<1>5. ASSUME NEW s \in me.seen, s[1] = "own" \/ (s[1] = "none" /\ leaks = 0)
      PROVE  s[2] = me.tenant
  <2>1. CASE s \in req[r].seen
    BY <1>1, <1>5, <2>1 DEF Scoped
  <2>2. CASE s \in {<<req[r].scope, t>> : t \in Visible(c)}
    <3>1. PICK t \in Visible(c) : s = <<req[r].scope, t>>
      BY <2>2
    <3> QED
      BY <1>4, <1>5, <3>1
  <2> QED
    BY <2>1, <2>2
<1>6. Scoped(me, conn, leaks)
  BY <1>2, <1>3, <1>5 DEF Scoped
<1>7. /\ conn' \in [Conn -> Settings] /\ leaks' = leaks
      /\ \A d \in Conn \ {c} : conn'[d] = conn[d]
      /\ Scoped(me, conn', leaks)
  BY <1>1, <1>6
<1> QED
  BY <1>7, GoesOn

--------------------------------------------------------------------------------
(* The actions *)

\* The part of SessionInv that is not about the types of the tables.
Kept ==
  /\ req' \in [Request -> Session]
  /\ \A q \in Request : Scoped(req'[q], conn', leaks')
  /\ PoolInv'

LEMMA CutShort ==
  ASSUME SessionInv, NEW r \in Request, NEW c \in Conn \cup {NoConn},
         c = req[r].conn \/ (c \in Conn /\ On(r, c)), NEW h \in {"never", "after save", "otherwise"},
         req' = [req EXCEPT ![r] = [Cut EXCEPT !.hidden = h]] \/ req' = [req EXCEPT ![r] = Cut],
         GiveBack(c)
  PROVE  Kept /\ conn' \in [Conn -> Settings] /\ leaks' \in Nat
<1>1. PICK me \in Session :
        /\ req' = [req EXCEPT ![r] = me] /\ me.todo = <<>>
        /\ me.conn = NoConn /\ me.scope = "none" /\ me.claims = FALSE /\ me.seen = {}
  <2>1. CASE req' = [req EXCEPT ![r] = Cut]
    BY <2>1, IdleIs
  <2>2. CASE req' = [req EXCEPT ![r] = [Cut EXCEPT !.hidden = h]]
    <3> DEFINE x == [Cut EXCEPT !.hidden = h]
    <3>1. /\ x \in Session /\ x.todo = <<>> /\ x.conn = NoConn
          /\ x.scope = "none" /\ x.claims = FALSE /\ x.seen = {}
      BY IdleIs DEF Session
    <3> QED
      BY <2>2, <3>1
  <2> QED
    BY <2>1, <2>2
<1>2. /\ conn' \in [Conn -> Settings] /\ leaks' \in Nat
      /\ \A d \in Conn \ {c} : conn'[d] = conn[d]
      /\ leaks' = 0 => leaks = 0
      /\ c # NoConn /\ leaks' = 0 => conn'[c] = Clean
  BY GivenBack DEF SessionInv
<1>3. Closes(me.todo)
  BY <1>1 DEF Closes
<1> QED
  BY <1>1, <1>2, <1>3, LetsGo DEF Kept

LEMMA Beginning ==
  ASSUME SessionInv, NEW r \in Request, NEW t \in Tenant,
         NEW todo \in Scripts \cup Operations \cup {Registration}, Begin(r, t, todo)
  PROVE  Kept
<1> DEFINE me == Incoming(t, todo)
<1>1. todo \in Seq(STRING) /\ Closes(todo)
  BY ScriptsClose DEF Closes
<1>2. {} \in SUBSET (Scope \X Tenant)
  OBVIOUS
<1>3. /\ me \in Session
      /\ me.conn = NoConn /\ me.scope = "none" /\ me.claims = FALSE /\ me.seen = {}
      /\ me.todo = todo /\ me.tenant = t
  BY <1>1, <1>2 DEF Incoming, Session, Scope
<1>4. req[r].conn = NoConn
  BY DEF SessionInv, Scoped, Begin
<1>5. req' = [req EXCEPT ![r] = me] /\ conn' = conn /\ leaks' = leaks
  BY DEF Begin
<1>6. conn \in [Conn -> Settings] /\ leaks \in Nat
  BY DEF SessionInv, TypeInv
<1> HIDE DEF me
<1> QED
  BY <1>1, <1>3, <1>4, <1>5, <1>6, LetsGo DEF Kept

LEMMA Contexts ==
  ASSUME SessionInv, NEW r \in Request, NEW c \in Conn,
         SetTenantContext(r, c) \/ SetPlatformContext(r, c)
  PROVE  Kept /\ conn' \in [Conn -> Settings] /\ leaks' = leaks
<1> USE SessionsAssumption
<1> DEFINE on == Onward(r, c)
<1>1. /\ req[r] \in Session /\ Scoped(req[r], conn, leaks)
      /\ conn \in [Conn -> Settings] /\ On(r, c) /\ TypeInv
  BY DEF SessionInv, TypeInv, SetTenantContext, SetPlatformContext
<1>2. NextIs(r, "context") \/ NextIs(r, "bypass")
  BY DEF SetTenantContext, SetPlatformContext
<1>3. /\ req[r].todo # <<>> /\ req[r].tenant \in Tenant
      /\ Closes(Tail(req[r].todo)) /\ Tail(req[r].todo) # <<>>
  BY <1>2, Rest
<1>4. /\ on \in Session /\ on.todo = Tail(req[r].todo) /\ on.conn = c
      /\ on.tenant = req[r].tenant /\ on.seen = req[r].seen
  BY <1>1, <1>3, OnwardIs
<1> HIDE DEF on
<1>5. ASSUME NEW s \in {"own", "all"}
      PROVE  LET me == [on EXCEPT !.scope = s] IN
             /\ me \in Session /\ me.todo = Tail(req[r].todo) /\ me.conn = c
             /\ me.tenant = req[r].tenant /\ me.seen = req[r].seen /\ me.scope = s
  BY <1>4 DEF Session, Scope
<1>6. CASE SetTenantContext(r, c)
  <2> DEFINE me == [on EXCEPT !.scope = "own"]
             own == [tenant |-> req[r].tenant, bypass |-> FALSE]
  <2>1. own \in Settings
    BY <1>3 DEF Settings
  <2>2. /\ conn' = [conn EXCEPT ![c] = own] /\ leaks' = leaks
        /\ req' = [req EXCEPT ![r] = me]
    BY <1>6 DEF SetTenantContext, on
  <2>3. /\ me \in Session /\ me.todo = Tail(req[r].todo) /\ me.conn = c
        /\ me.tenant = req[r].tenant /\ me.seen = req[r].seen /\ me.scope = "own"
    BY <1>5
  <2> HIDE DEF me, own
  <2>4. conn' \in [Conn -> Settings] /\ conn'[c] = own /\ \A d \in Conn \ {c} : conn'[d] = conn[d]
    BY <1>1, <2>1, <2>2
  <2>5. Scoped(me, conn', leaks)
    BY <1>1, <1>3, <2>3, <2>4 DEF Scoped, own
  <2> QED
    BY <1>1, <2>2, <2>3, <2>4, <2>5, GoesOn DEF Kept
<1>7. CASE SetPlatformContext(r, c)
  <2> DEFINE me == [on EXCEPT !.scope = "all"]
  <2>1. /\ conn' = [conn EXCEPT ![c] = [conn[c] EXCEPT !.bypass = TRUE]] /\ leaks' = leaks
        /\ req' = [req EXCEPT ![r] = me]
    BY <1>7 DEF SetPlatformContext, on
  <2>2. /\ me \in Session /\ me.todo = Tail(req[r].todo) /\ me.conn = c
        /\ me.tenant = req[r].tenant /\ me.seen = req[r].seen /\ me.scope = "all"
    BY <1>5
  <2> HIDE DEF me
  <2>3. conn' \in [Conn -> Settings] /\ \A d \in Conn \ {c} : conn'[d] = conn[d]
    BY <1>1, <2>1 DEF Settings
  <2>4. Scoped(me, conn', leaks)
    BY <1>1, <1>3, <2>2 DEF Scoped
  <2> QED
    BY <1>1, <2>1, <2>2, <2>3, <2>4, GoesOn DEF Kept
<1> QED
  BY <1>6, <1>7

LEMMA Selects ==
  ASSUME SessionInv, NEW r \in Request, NEW c \in Conn, SelectSome(r, c)
  PROVE  Kept
<1> DEFINE on == Onward(r, c)
           me == Looking(on, c)
<1>1. On(r, c) /\ NextIs(r, "list") /\ TypeInv /\ conn \in [Conn -> Settings]
  BY DEF SelectSome, SessionInv, TypeInv
<1>2. req[r].todo # <<>> /\ Closes(Tail(req[r].todo)) /\ Tail(req[r].todo) # <<>>
  BY <1>1, Rest
<1>3. /\ on \in Session /\ on.todo = Tail(req[r].todo) /\ on.conn = c
      /\ on.tenant = req[r].tenant /\ on.scope = req[r].scope /\ on.seen = req[r].seen
  BY <1>1, <1>2, OnwardIs
<1> HIDE DEF on
<1>4. /\ me \in Session /\ me.todo = on.todo /\ me.conn = c
      /\ me.tenant = req[r].tenant /\ me.scope = req[r].scope
      /\ me.seen = req[r].seen \cup {<<req[r].scope, t>> : t \in Visible(c)}
  BY <1>1, <1>3, LookingIs
<1>5. req' = [req EXCEPT ![r] = me] /\ UNCHANGED <<conn, leaks>>
  BY DEF SelectSome, on
<1> HIDE DEF me
<1> QED
  BY <1>1, <1>2, <1>3, <1>4, <1>5, KeepsScope DEF Kept

LEMMA Touches ==
  ASSUME SessionInv, NEW r \in Request, NEW c \in Conn, TouchRow(r, c)
  PROVE  Kept /\ conn' \in [Conn -> Settings] /\ leaks' \in Nat
<1>1. TypeInv /\ conn \in [Conn -> Settings] /\ leaks \in Nat
  BY DEF SessionInv, TypeInv
<1>2. PICK s \in NeedsRow :
        /\ NextIs(r, s) /\ On(r, c)
        /\ IF req[r].tenant \in Visible(c)
           THEN /\ req' = [req EXCEPT ![r] = [Looking(Onward(r, c), c) EXCEPT !.unsaved = Unsaved(req[r], s)]]
                /\ UNCHANGED <<conn, leaks>>
           ELSE /\ req' = [req EXCEPT ![r] = [Cut EXCEPT !.hidden = Looking(req[r], c).hidden]]
                /\ GiveBack(c)
  BY DEF TouchRow
<1>3. /\ req[r] \in Session /\ req[r].todo # <<>>
      /\ Closes(Tail(req[r].todo)) /\ Tail(req[r].todo) # <<>>
  BY <1>2, Rest DEF NeedsRow
<1>4. CASE req[r].tenant \in Visible(c)
  <2> DEFINE on == Onward(r, c)
             look == Looking(on, c)
             un == Unsaved(req[r], s)
             me == [look EXCEPT !.unsaved = un]
  <2>1. /\ on \in Session /\ on.todo = Tail(req[r].todo) /\ on.conn = c
        /\ on.tenant = req[r].tenant /\ on.scope = req[r].scope /\ on.seen = req[r].seen
    BY <1>1, <1>3, OnwardIs
  <2>2. req' = [req EXCEPT ![r] = me] /\ UNCHANGED <<conn, leaks>>
    BY <1>2, <1>4
  <2>3. un \in {"nothing", "change", "entry"}
    BY <1>3 DEF Unsaved, Session
  <2> HIDE DEF on, un
  <2>4. /\ look \in Session /\ look.todo = on.todo /\ look.conn = c
        /\ look.tenant = req[r].tenant /\ look.scope = req[r].scope
        /\ look.seen = req[r].seen \cup {<<req[r].scope, t>> : t \in Visible(c)}
    BY <1>1, <2>1, LookingIs
  <2> HIDE DEF look
  <2>5. /\ me \in Session /\ me.todo = look.todo /\ me.conn = look.conn
        /\ me.tenant = look.tenant /\ me.scope = look.scope /\ me.seen = look.seen
    BY <2>3, <2>4 DEF Session
  <2> HIDE DEF me
  <2>6. On(r, c)
    BY <1>2
  <2>7. /\ me \in Session /\ me.todo # <<>> /\ Closes(me.todo) /\ me.conn = c
        /\ me.tenant = req[r].tenant /\ me.scope = req[r].scope
        /\ me.seen = req[r].seen \cup {<<req[r].scope, t>> : t \in Visible(c)}
    BY <1>3, <2>1, <2>4, <2>5
  <2>8. Kept
    BY <1>3, <2>2, <2>6, <2>7, KeepsScope DEF Kept
  <2> QED
    BY <1>1, <2>2, <2>8
<1>5. CASE req[r].tenant \notin Visible(c)
  <2>1. Looking(req[r], c).hidden \in {"never", "after save", "otherwise"}
    BY <1>1, <1>3, LookingIs DEF Session
  <2> QED
    BY <1>2, <1>5, <2>1, CutShort
<1> QED
  BY <1>4, <1>5

\* The statements that see no protected row and are not refused.
LEMMA Passes ==
  ASSUME SessionInv, NEW r \in Request, NEW c \in Conn, On(r, c), NEW me \in Session,
         NEW s, NextIs(r, s), s # "close",
         req' = [req EXCEPT ![r] = me], UNCHANGED <<conn, leaks>>,
         me.todo \in {req[r].todo, Tail(req[r].todo)}, me.conn = c,
         me.tenant = req[r].tenant, me.scope = req[r].scope, me.seen = req[r].seen
  PROVE  Kept
<1>1. /\ req[r] \in Session /\ req[r].todo # <<>>
      /\ Closes(Tail(req[r].todo)) /\ Tail(req[r].todo) # <<>>
  BY Rest
<1>2. Closes(req[r].todo)
  BY DEF SessionInv, Scoped
<1> QED
  BY <1>1, <1>2, KeepsScope DEF Kept

LEMMA SharedTouches ==
  ASSUME SessionInv, NEW r \in Request, NEW c \in Conn, TouchShared(r, c)
  PROVE  Kept
<1>1. TypeInv
  BY DEF SessionInv
<1>2. PICK s \in {"shared", "join", "answer"} :
        /\ NextIs(r, s) /\ On(r, c)
        /\ req' = [req EXCEPT ![r] = [Onward(r, c) EXCEPT !.unsaved = Unsaved(req[r], s)]]
  BY DEF TouchShared
<1>3. req[r] \in Session /\ req[r].todo # <<>>
  BY <1>2, Rest
<1> DEFINE on == Onward(r, c)
           un == Unsaved(req[r], s)
           me == [on EXCEPT !.unsaved = un]
<1>4. /\ on \in Session /\ on.todo = Tail(req[r].todo) /\ on.conn = c
      /\ on.tenant = req[r].tenant /\ on.scope = req[r].scope /\ on.seen = req[r].seen
  BY <1>1, <1>3, OnwardIs
<1>5. un \in {"nothing", "change", "entry"}
  BY <1>3 DEF Unsaved, Session
<1>6. req' = [req EXCEPT ![r] = me] /\ UNCHANGED <<conn, leaks>>
  BY <1>2 DEF TouchShared
<1> HIDE DEF on, un
<1>7. /\ me \in Session /\ me.todo = on.todo /\ me.conn = on.conn
      /\ me.tenant = on.tenant /\ me.scope = on.scope /\ me.seen = on.seen
  BY <1>4, <1>5 DEF Session
<1> HIDE DEF me
<1> QED
  BY <1>2, <1>4, <1>6, <1>7, Passes

LEMMA SlugsLookedUp ==
  ASSUME SessionInv, NEW r \in Request, NEW c \in Conn, LookUpSlug(r, c)
  PROVE  Kept /\ conn' \in [Conn -> Settings] /\ leaks' \in Nat
<1>1. TypeInv /\ conn \in [Conn -> Settings] /\ leaks \in Nat
  BY DEF SessionInv, TypeInv
<1>2. NextIs(r, "lookup") /\ On(r, c)
  BY DEF LookUpSlug
<1>3. CASE req[r].tenant \in tenants
  BY <1>2, <1>3, CutShort DEF LookUpSlug
<1>4. CASE req[r].tenant \notin tenants
  <2> DEFINE me == Onward(r, c)
  <2>1. req' = [req EXCEPT ![r] = me] /\ UNCHANGED <<conn, leaks>>
    BY <1>4 DEF LookUpSlug
  <2>2. /\ me \in Session /\ me.todo = Tail(req[r].todo) /\ me.conn = c
        /\ me.tenant = req[r].tenant /\ me.scope = req[r].scope /\ me.seen = req[r].seen
    BY <1>1, <1>2, OnwardIs, Rest
  <2> HIDE DEF me
  <2> QED
    BY <1>1, <1>2, <2>1, <2>2, Passes
<1> QED
  BY <1>3, <1>4

LEMMA SlugsClaimed ==
  ASSUME SessionInv, NEW r \in Request, NEW c \in Conn, ClaimSlug(r, c)
  PROVE  Kept /\ conn' \in [Conn -> Settings] /\ leaks' \in Nat
<1>1. TypeInv /\ conn \in [Conn -> Settings] /\ leaks \in Nat
  BY DEF SessionInv, TypeInv
<1>2. NextIs(r, "claim") /\ On(r, c)
  BY DEF ClaimSlug
<1>3. CASE req[r].tenant \in tenants
  BY <1>2, <1>3, CutShort DEF ClaimSlug
<1>4. CASE req[r].tenant \notin tenants
  <2> DEFINE on == Onward(r, c)
             me == [on EXCEPT !.claims = TRUE]
  <2>1. req' = [req EXCEPT ![r] = me] /\ UNCHANGED <<conn, leaks>>
    BY <1>4 DEF ClaimSlug
  <2>2. /\ on \in Session /\ on.todo = Tail(req[r].todo) /\ on.conn = c
        /\ on.tenant = req[r].tenant /\ on.scope = req[r].scope /\ on.seen = req[r].seen
    BY <1>1, <1>2, OnwardIs, Rest
  <2> HIDE DEF on
  <2>3. /\ me \in Session /\ me.todo = on.todo /\ me.conn = on.conn
        /\ me.tenant = on.tenant /\ me.scope = on.scope /\ me.seen = on.seen
    BY <2>2 DEF Session
  <2> HIDE DEF me
  <2> QED
    BY <1>1, <1>2, <2>1, <2>2, <2>3, Passes
<1> QED
  BY <1>3, <1>4

LEMMA SeedsRead ==
  ASSUME SessionInv, NEW r \in Request, NEW c \in Conn, SeedRead(r, c)
  PROVE  Kept
<1>1. TypeInv
  BY DEF SessionInv
<1>2. NextIs(r, "seed") /\ On(r, c) /\ UNCHANGED <<conn, leaks>>
  BY DEF SeedRead
<1>3. req[r] \in Session /\ req[r].todo # <<>>
  BY <1>2, Rest
<1>4. CASE catalog
  <2> DEFINE me == Onward(r, c)
  <2>1. req' = [req EXCEPT ![r] = me]
    BY <1>4 DEF SeedRead
  <2>2. /\ me \in Session /\ me.todo = Tail(req[r].todo) /\ me.conn = c
        /\ me.tenant = req[r].tenant /\ me.scope = req[r].scope /\ me.seen = req[r].seen
    BY <1>1, <1>3, OnwardIs
  <2> HIDE DEF me
  <2> QED
    BY <1>2, <2>1, <2>2, Passes
<1>5. CASE ~catalog
  <2> DEFINE me == [req[r] EXCEPT !.conn = c, !.seeding = TRUE]
  <2>1. req' = [req EXCEPT ![r] = me]
    BY <1>5 DEF SeedRead
  <2>2. /\ me \in Session /\ me.todo = req[r].todo /\ me.conn = c
        /\ me.tenant = req[r].tenant /\ me.scope = req[r].scope /\ me.seen = req[r].seen
    BY <1>3 DEF Session
  <2> HIDE DEF me
  <2> QED
    BY <1>2, <2>1, <2>2, Passes
<1> QED
  BY <1>4, <1>5

LEMMA Commits ==
  ASSUME SessionInv, NEW r \in Request, CommitTransaction(r)
  PROVE  Kept /\ conn' \in [Conn -> Settings]
<1> USE SessionsAssumption
<1> DEFINE c == req[r].conn
           rel == Released(req[r])
<1>1. req[r] \in Session /\ conn \in [Conn -> Settings] /\ leaks \in Nat
  BY DEF SessionInv, TypeInv
<1>2. PICK s \in {"commit", "save"} :
        /\ NextIs(r, s) /\ req[r].conn # NoConn
        /\ req' = [req EXCEPT ![r] =
             [Released(req[r]) EXCEPT
                !.todo = Tail(req[r].todo),
                !.saved = (req[r].saved \/ s = "save"),
                !.owes = IF req[r].unsaved = "nothing" THEN req[r].owes
                         ELSE req[r].unsaved = "change"]]
        /\ conn' = [conn EXCEPT ![req[r].conn] = Clean]
        /\ leaks' = leaks
  BY DEF CommitTransaction
<1>3. /\ req[r].tenant \in Tenant /\ Closes(Tail(req[r].todo))
      /\ Tail(req[r].todo) \in Seq(STRING)
  BY <1>2, Rest
<1>4. PICK saved, owes \in BOOLEAN :
        req' = [req EXCEPT ![r] = [rel EXCEPT !.todo = Tail(req[r].todo), !.saved = saved, !.owes = owes]]
  <2> DEFINE saved == req[r].saved \/ s = "save"
             owes == IF req[r].unsaved = "nothing" THEN req[r].owes ELSE req[r].unsaved = "change"
  <2>1. saved \in BOOLEAN /\ owes \in BOOLEAN
    BY <1>1 DEF Session
  <2> QED
    BY <1>2, <2>1
<1> DEFINE me == [rel EXCEPT !.todo = Tail(req[r].todo), !.saved = saved, !.owes = owes]
<1>5. /\ rel \in Session /\ rel.conn = NoConn /\ rel.tenant = req[r].tenant
      /\ rel.scope = "none" /\ rel.claims = FALSE /\ rel.seen = {}
  BY <1>1, ReleasedIs
<1>6. req' = [req EXCEPT ![r] = me]
  BY <1>4
<1> HIDE DEF rel
<1>7. /\ me \in Session /\ me.todo = Tail(req[r].todo) /\ me.conn = rel.conn
      /\ me.tenant = rel.tenant /\ me.scope = rel.scope /\ me.claims = rel.claims /\ me.seen = rel.seen
  BY <1>3, <1>5 DEF Session
<1> HIDE DEF me
<1>8. /\ c \in Conn /\ c = req[r].conn /\ Clean \in Settings
      /\ conn' = [conn EXCEPT ![c] = Clean] /\ leaks' = leaks
  BY <1>1, <1>2 DEF Session, Clean, Settings
<1> HIDE DEF c
<1>9. /\ conn' \in [Conn -> Settings] /\ conn'[c] = Clean
      /\ \A d \in Conn \ {c} : conn'[d] = conn[d]
  BY <1>1, <1>8
<1>10. /\ me \in Session /\ me.conn = NoConn /\ me.scope = "none"
       /\ me.claims = FALSE /\ me.seen = {}
       /\ Closes(me.todo) /\ (me.todo # <<>> => me.tenant \in Tenant)
  BY <1>3, <1>5, <1>7
<1>11. leaks' \in Nat /\ (leaks' = 0 => leaks = 0)
  BY <1>1, <1>8
<1> QED
  BY <1>6, <1>8, <1>9, <1>10, <1>11, LetsGo DEF Kept

LEMMA SeedCommits ==
  ASSUME SessionInv, NEW r \in Request, SeedCommit(r)
  PROVE  Kept /\ conn' \in [Conn -> Settings] /\ leaks' \in Nat
<1> USE SessionsAssumption
<1> DEFINE rel == Released(req[r])
<1>1. req[r] \in Session /\ conn \in [Conn -> Settings] /\ leaks \in Nat
  BY DEF SessionInv, TypeInv
<1>2. NextIs(r, "seed") /\ req[r].conn \in Conn \cup {NoConn}
  BY <1>1 DEF SeedCommit, Session
<1>3. CASE catalog
  BY <1>2, <1>3, CutShort DEF SeedCommit
<1>4. CASE ~catalog
  <2> DEFINE me == [rel EXCEPT !.todo = Tail(req[r].todo), !.saved = TRUE]
             c == req[r].conn
  <2>1. /\ req[r].tenant \in Tenant /\ Closes(Tail(req[r].todo))
        /\ Tail(req[r].todo) \in Seq(STRING)
    BY <1>2, Rest
  <2>2. /\ rel \in Session /\ rel.conn = NoConn /\ rel.tenant = req[r].tenant
        /\ rel.scope = "none" /\ rel.claims = FALSE /\ rel.seen = {}
    BY <1>1, ReleasedIs
  <2>3. /\ req' = [req EXCEPT ![r] = me] /\ leaks' = leaks
        /\ conn' = [conn EXCEPT ![c] = Clean]
    BY <1>4 DEF SeedCommit
  <2> HIDE DEF rel
  <2>4. /\ me \in Session /\ me.todo = Tail(req[r].todo) /\ me.conn = rel.conn
        /\ me.tenant = rel.tenant /\ me.scope = rel.scope /\ me.claims = rel.claims /\ me.seen = rel.seen
    BY <2>1, <2>2 DEF Session
  <2> HIDE DEF me
  <2>5. c \in Conn \cup {NoConn} /\ c = req[r].conn /\ Clean \in Settings
    BY <1>2 DEF Clean, Settings
  <2> HIDE DEF c
  <2>6. /\ conn' \in [Conn -> Settings] /\ (c # NoConn => conn'[c] = Clean)
        /\ \A d \in Conn \ {c} : conn'[d] = conn[d]
    BY <1>1, <2>3, <2>5
  <2>7. /\ me \in Session /\ me.conn = NoConn /\ me.scope = "none"
        /\ me.claims = FALSE /\ me.seen = {}
        /\ Closes(me.todo) /\ (me.todo # <<>> => me.tenant \in Tenant)
    BY <2>1, <2>2, <2>4
  <2>8. leaks' \in Nat /\ (leaks' = 0 => leaks = 0)
    BY <1>1, <2>3
  <2> QED
    BY <2>3, <2>5, <2>6, <2>7, <2>8, LetsGo DEF Kept
<1> QED
  BY <1>3, <1>4

LEMMA Closings ==
  ASSUME SessionInv, NEW r \in Request, CloseSession(r)
  PROVE  Kept /\ conn' \in [Conn -> Settings] /\ leaks' \in Nat
<1> DEFINE rel == Released(req[r])
           rest == [rel EXCEPT !.todo = Tail(req[r].todo), !.saved = FALSE, !.hidden = "never"]
           c == req[r].conn
<1>1. req[r] \in Session
  BY DEF SessionInv, TypeInv
<1>2. /\ NextIs(r, "close") /\ GiveBack(c)
      /\ req' = [req EXCEPT ![r] = Settled(rest)]
  BY DEF CloseSession
<1>3. /\ req[r].tenant \in Tenant /\ Closes(Tail(req[r].todo))
      /\ Tail(req[r].todo) \in Seq(STRING)
  BY <1>2, Rest
<1>4. /\ rel \in Session /\ rel.conn = NoConn /\ rel.tenant = req[r].tenant
      /\ rel.scope = "none" /\ rel.claims = FALSE /\ rel.seen = {}
  BY <1>1, ReleasedIs
<1> HIDE DEF rel
<1>5. /\ rest \in Session /\ rest.todo = Tail(req[r].todo) /\ rest.conn = rel.conn
      /\ rest.tenant = rel.tenant /\ rest.scope = rel.scope
      /\ rest.claims = rel.claims /\ rest.seen = rel.seen
  BY <1>3, <1>4 DEF Session
<1> HIDE DEF rest
<1>6. PICK me \in Session :
        /\ req' = [req EXCEPT ![r] = me]
        /\ me.conn = NoConn /\ me.scope = "none" /\ me.claims = FALSE /\ me.seen = {}
        /\ Closes(me.todo) /\ (me.todo # <<>> => me.tenant \in Tenant)
  <2>1. CASE rest.todo # <<>>
    BY <1>2, <1>3, <1>4, <1>5, <2>1 DEF Settled
  <2>2. CASE rest.todo = <<>>
    <3> DEFINE me == [Idle EXCEPT !.owes = rest.owes]
    <3>1. rest.owes \in BOOLEAN
      BY <1>5 DEF Session
    <3>2. /\ me \in Session /\ me.todo = <<>> /\ me.conn = NoConn /\ me.scope = "none"
          /\ me.claims = FALSE /\ me.seen = {}
      BY <3>1, IdleIs DEF Session
    <3>3. req' = [req EXCEPT ![r] = me]
      BY <1>2, <2>2 DEF Settled
    <3> HIDE DEF me
    <3> QED
      BY <3>2, <3>3 DEF Closes
  <2> QED
    BY <2>1, <2>2
<1>7. c \in Conn \cup {NoConn} /\ c = req[r].conn
  BY <1>1 DEF Session
<1> HIDE DEF c
<1>8. /\ conn' \in [Conn -> Settings] /\ leaks' \in Nat
      /\ \A d \in Conn \ {c} : conn'[d] = conn[d]
      /\ leaks' = 0 => leaks = 0
      /\ c # NoConn /\ leaks' = 0 => conn'[c] = Clean
  BY <1>2, <1>7, GivenBack DEF SessionInv
<1> QED
  BY <1>6, <1>7, <1>8, LetsGo DEF Kept

LEMMA SessionsInit == Init => SessionInv
<1> SUFFICES ASSUME Init
             PROVE  SessionInv
  OBVIOUS
<1>1. Clean \in Settings
  BY DEF Clean, Settings
<1>2. TypeInv
  BY <1>1, IdleIs, SessionsAssumption DEF Init, TypeInv
<1>3. ASSUME NEW r \in Request
      PROVE  Scoped(req[r], conn, leaks)
  BY IdleIs DEF Init, Scoped, Closes
<1>4. PoolInv
  BY IdleIs DEF Init, PoolInv
<1> QED
  BY <1>2, <1>3, <1>4 DEF SessionInv

LEMMA SessionsStep == SessionInv /\ [Next]_vars => SessionInv'
<1> SUFFICES ASSUME SessionInv, [Next]_vars
             PROVE  SessionInv'
  OBVIOUS
<1> USE SessionsAssumption
<1>1. /\ conn \in [Conn -> Settings] /\ leaks \in Nat /\ tenants \subseteq Tenant
      /\ catalog \in BOOLEAN /\ founders \in [Tenant -> Nat] /\ req \in [Request -> Session]
  BY DEF SessionInv, TypeInv
<1> DEFINE Tables == tenants' \subseteq Tenant /\ catalog' \in BOOLEAN /\ founders' \in [Tenant -> Nat]
           Pool == conn' \in [Conn -> Settings] /\ leaks' \in Nat
<1>2. ASSUME NEW r \in Request, NEW t \in Tenant,
             NEW todo \in Scripts \cup Operations \cup {Registration}, Begin(r, t, todo)
      PROVE  Kept /\ Pool /\ Tables
  BY <1>1, <1>2, Beginning DEF Begin
<1>3. ASSUME NEW r \in Request, NEW c \in Conn, SetTenantContext(r, c) \/ SetPlatformContext(r, c)
      PROVE  Kept /\ Pool /\ Tables
  BY <1>1, <1>3, Contexts DEF SetTenantContext, SetPlatformContext
<1>4. ASSUME NEW r \in Request, NEW c \in Conn, SelectSome(r, c)
      PROVE  Kept /\ Pool /\ Tables
  BY <1>1, <1>4, Selects DEF SelectSome
<1>5. ASSUME NEW r \in Request, NEW c \in Conn, TouchRow(r, c)
      PROVE  Kept /\ Pool /\ Tables
  BY <1>1, <1>5, Touches DEF TouchRow
<1>6. ASSUME NEW r \in Request, NEW c \in Conn, TouchShared(r, c)
      PROVE  Kept /\ Pool /\ Tables
  BY <1>1, <1>6, SharedTouches DEF TouchShared
<1>7. ASSUME NEW r \in Request, NEW c \in Conn, LookUpSlug(r, c)
      PROVE  Kept /\ Pool /\ Tables
  BY <1>1, <1>7, SlugsLookedUp DEF LookUpSlug
<1>8. ASSUME NEW r \in Request, NEW c \in Conn, ClaimSlug(r, c)
      PROVE  Kept /\ Pool /\ Tables
  BY <1>1, <1>8, SlugsClaimed DEF ClaimSlug
<1>9. ASSUME NEW r \in Request, NEW c \in Conn, SeedRead(r, c)
      PROVE  Kept /\ Pool /\ Tables
  BY <1>1, <1>9, SeedsRead DEF SeedRead
<1>10. ASSUME NEW r \in Request, CommitTransaction(r)
       PROVE  Kept /\ Pool /\ Tables
  <2>1. req[r].tenant \in Tenant
    BY <1>10, Rest DEF CommitTransaction
  <2>2. /\ tenants' = IF req[r].claims THEN tenants \cup {req[r].tenant} ELSE tenants
        /\ founders' = IF req[r].claims
                       THEN [founders EXCEPT ![req[r].tenant] = founders[req[r].tenant] + 1]
                       ELSE founders
        /\ catalog' = catalog /\ leaks' = leaks
    BY <1>10 DEF CommitTransaction
  <2>3. Tables
    BY <1>1, <2>1, <2>2
  <2> QED
    BY <1>1, <1>10, <2>2, <2>3, Commits
<1>11. ASSUME NEW r \in Request, SeedCommit(r)
       PROVE  Kept /\ Pool /\ Tables
  BY <1>1, <1>11, SeedCommits DEF SeedCommit
<1>12. ASSUME NEW r \in Request, CloseSession(r)
       PROVE  Kept /\ Pool /\ Tables
  BY <1>1, <1>12, Closings DEF CloseSession
<1>13. ASSUME NEW r \in Request, ReturnEarly(r)
       PROVE  Kept /\ Pool /\ Tables
  <2>1. req[r].conn \in Conn \cup {NoConn}
    BY <1>1 DEF Session
  <2> QED
    BY <1>1, <1>13, <2>1, CutShort DEF ReturnEarly
<1>14. CASE UNCHANGED vars
  BY <1>14 DEF vars, SessionInv, TypeInv, PoolInv
<1>15. ASSUME Kept, Pool, Tables
       PROVE  SessionInv'
  BY <1>15 DEF Kept, SessionInv, TypeInv
<1>16. CASE Next
  BY <1>1, <1>2, <1>3, <1>4, <1>5, <1>6, <1>7, <1>8, <1>9, <1>10, <1>11, <1>12, <1>13, <1>15, <1>16
     DEF Next, Step
<1> QED
  BY <1>14, <1>16

\* Sessions keep to what their scope promises.
LEMMA SessionsSound == Spec => []SessionInv
BY SessionsInit, SessionsStep, PTL DEF Spec

\* For any number of requests, tenants and pooled connections, whatever
\* endpoints do: set_tenant_context shows a request the rows of its own tenant
\* only, also on a connection that kept an earlier request's settings; and a
\* request without a context sees no protected row unless there is one.
THEOREM Isolation == Spec => []TenantsApart
<1>1. SessionInv => TenantsApart
  BY DEF SessionInv, Scoped, TenantsApart
<1> QED
  BY <1>1, SessionsSound, PTL

\* The types of the model's state, and that no connection serves two requests.
THEOREM TypesCorrect == Spec => []TypeOK
<1>1. SessionInv => TypeOK
  <2> SUFFICES ASSUME SessionInv
               PROVE  TypeOK
    OBVIOUS
  <2>1. TypeInv /\ PoolInv
    BY DEF SessionInv
  <2>2. ASSUME NEW r \in Request
        PROVE  /\ req[r].tenant \in Tenant \cup {NoTenant}
               /\ req[r].conn \in Conn \cup {NoConn}
               /\ req[r].scope \in Scope
               /\ req[r].conn = NoConn => req[r].scope = "none" /\ ~req[r].claims /\ req[r].seen = {}
               /\ req[r].conn # NoConn => req[r].todo # <<>> /\ req[r].tenant \in Tenant
               /\ req[r].seen \subseteq Scope \X Tenant
    <3>1. req[r] \in Session /\ Scoped(req[r], conn, leaks)
      BY <2>1 DEF SessionInv, TypeInv
    <3>2. req[r].seen \in SUBSET (Scope \X Tenant)
      BY <3>1 DEF Session
    <3> QED
      BY <3>1, <3>2 DEF Session, Scoped
  <2> QED
    BY <2>1, <2>2 DEF TypeOK, TypeInv, PoolInv
<1> QED
  BY <1>1, SessionsSound, PTL

--------------------------------------------------------------------------------
(* Registration *)

\* A slug is claimed by one open transaction at most, and by none once the
\* tenant is there; a tenant that is not there has no founder.
FoundersInv ==
  /\ \A r \in Request : req[r].claims => req[r].tenant \notin tenants
  /\ \A r, q \in Request :
       r # q /\ req[r].claims /\ req[q].claims => req[r].tenant # req[q].tenant
  /\ \A t \in Tenant : founders[t] <= 1 /\ (t \notin tenants => founders[t] = 0)

\* r makes no new claim, nor does anybody else.
NoNewClaim(r) ==
  /\ \A q \in Request : req'[q].claims => req[q].claims /\ req'[q].tenant = req[q].tenant
  /\ UNCHANGED <<tenants, founders>>

LEMMA ClaimsStay ==
  ASSUME SessionInv, NEW r \in Request, NEW me, req' = [req EXCEPT ![r] = me],
         me.claims = FALSE \/ (me.claims = req[r].claims /\ me.tenant = req[r].tenant),
         UNCHANGED <<tenants, founders>>
  PROVE  NoNewClaim(r)
BY DEF NoNewClaim, SessionInv, TypeInv

LEMMA CutClaims ==
  ASSUME SessionInv, NEW r \in Request, NEW h,
         req' = [req EXCEPT ![r] = [Cut EXCEPT !.hidden = h]] \/ req' = [req EXCEPT ![r] = Cut],
         UNCHANGED <<tenants, founders>>
  PROVE  NoNewClaim(r)
<1>1. [Cut EXCEPT !.hidden = h].claims = FALSE /\ Cut.claims = FALSE
  BY IdleIs DEF Session
<1> QED
  BY <1>1, ClaimsStay

LEMMA StatementsClaimNothing ==
  ASSUME SessionInv, NEW r \in Request, NEW c \in Conn,
         \/ SetTenantContext(r, c) \/ SetPlatformContext(r, c) \/ SelectSome(r, c)
         \/ TouchRow(r, c) \/ TouchShared(r, c) \/ LookUpSlug(r, c) \/ SeedRead(r, c)
  PROVE  NoNewClaim(r)
<1> DEFINE on == Onward(r, c)
<1>1. req[r] \in Session /\ TypeInv /\ conn \in [Conn -> Settings]
  BY DEF SessionInv, TypeInv
<1>2. req[r].todo # <<>> /\ UNCHANGED <<tenants, founders>>
  BY DEF SetTenantContext, SetPlatformContext, SelectSome, TouchRow, TouchShared, LookUpSlug,
         SeedRead, NextIs
<1>3. on \in Session /\ on.claims = req[r].claims /\ on.tenant = req[r].tenant
  BY <1>1, <1>2, OnwardIs
<1> HIDE DEF on
<1>4. ASSUME NEW s
      PROVE  /\ [on EXCEPT !.scope = s].claims = req[r].claims
             /\ [on EXCEPT !.scope = s].tenant = req[r].tenant
             /\ [on EXCEPT !.unsaved = s].claims = req[r].claims
             /\ [on EXCEPT !.unsaved = s].tenant = req[r].tenant
  BY <1>3 DEF Session
<1>5. CASE SetTenantContext(r, c)
  BY <1>2, <1>4, <1>5, ClaimsStay DEF SetTenantContext, on
<1>6. CASE SetPlatformContext(r, c)
  BY <1>2, <1>4, <1>6, ClaimsStay DEF SetPlatformContext, on
<1>7. CASE SelectSome(r, c)
  <2>1. Looking(on, c).claims = req[r].claims /\ Looking(on, c).tenant = req[r].tenant
    BY <1>1, <1>3, LookingIs
  <2> QED
    BY <1>2, <1>7, <2>1, ClaimsStay DEF SelectSome, on
<1>8. CASE TouchRow(r, c)
  <2> DEFINE look == Looking(on, c)
  <2>1. look \in Session /\ look.claims = req[r].claims /\ look.tenant = req[r].tenant
    BY <1>1, <1>3, LookingIs
  <2> HIDE DEF look
  <2>2. ASSUME NEW u
        PROVE  /\ [look EXCEPT !.unsaved = u].claims = req[r].claims
               /\ [look EXCEPT !.unsaved = u].tenant = req[r].tenant
    BY <2>1 DEF Session
  <2>3. \/ \E u : req' = [req EXCEPT ![r] = [look EXCEPT !.unsaved = u]]
        \/ \E h : req' = [req EXCEPT ![r] = [Cut EXCEPT !.hidden = h]]
    BY <1>8 DEF TouchRow, look, on
  <2> QED
    BY <1>2, <2>2, <2>3, ClaimsStay, CutClaims
<1>9. CASE TouchShared(r, c)
  BY <1>2, <1>4, <1>9, ClaimsStay DEF TouchShared, on
<1>10. CASE LookUpSlug(r, c)
  <2>1. req' = [req EXCEPT ![r] = on] \/ req' = [req EXCEPT ![r] = Cut]
    BY <1>10 DEF LookUpSlug, on
  <2> QED
    BY <1>2, <1>3, <2>1, ClaimsStay, CutClaims
<1>11. CASE SeedRead(r, c)
  <2>1. \/ req' = [req EXCEPT ![r] = on]
        \/ req' = [req EXCEPT ![r] = [req[r] EXCEPT !.conn = c, !.seeding = TRUE]]
    BY <1>11 DEF SeedRead, on
  <2>2. /\ [req[r] EXCEPT !.conn = c, !.seeding = TRUE].claims = req[r].claims
        /\ [req[r] EXCEPT !.conn = c, !.seeding = TRUE].tenant = req[r].tenant
    BY <1>1 DEF Session
  <2> QED
    BY <1>2, <1>3, <2>1, <2>2, ClaimsStay
<1> QED
  BY <1>5, <1>6, <1>7, <1>8, <1>9, <1>10, <1>11

LEMMA EndingsClaimNothing ==
  ASSUME SessionInv, NEW r \in Request,
         \/ SeedCommit(r) \/ CloseSession(r) \/ ReturnEarly(r)
         \/ \E t \in Tenant : \E todo \in Scripts \cup Operations \cup {Registration} : Begin(r, t, todo)
  PROVE  NoNewClaim(r)
<1> DEFINE rel == Released(req[r])
<1>1. rel \in Session /\ rel.claims = FALSE
  BY ReleasedIs DEF SessionInv, TypeInv
<1>2. UNCHANGED <<tenants, founders>>
  BY DEF SeedCommit, CloseSession, ReturnEarly, Begin
<1>3. CASE SeedCommit(r)
  <2>1. [rel EXCEPT !.todo = Tail(req[r].todo), !.saved = TRUE].claims = FALSE
    BY <1>1 DEF Session
  <2>2. \/ req' = [req EXCEPT ![r] = [rel EXCEPT !.todo = Tail(req[r].todo), !.saved = TRUE]]
        \/ req' = [req EXCEPT ![r] = Cut]
    BY <1>3 DEF SeedCommit
  <2> QED
    BY <1>2, <2>1, <2>2, ClaimsStay, CutClaims
<1>4. CASE CloseSession(r)
  <2> DEFINE rest == [rel EXCEPT !.todo = Tail(req[r].todo), !.saved = FALSE, !.hidden = "never"]
  <2>1. rest.claims = FALSE /\ [Idle EXCEPT !.owes = rest.owes].claims = FALSE
    BY <1>1, IdleIs DEF Session
  <2>2. req' = [req EXCEPT ![r] = Settled(rest)]
    BY <1>4 DEF CloseSession
  <2> HIDE DEF rest
  <2>3. Settled(rest).claims = FALSE
    BY <2>1 DEF Settled
  <2> QED
    BY <1>2, <2>2, <2>3, ClaimsStay
<1>5. CASE ReturnEarly(r)
  BY <1>2, <1>5, CutClaims DEF ReturnEarly
<1>6. ASSUME NEW t \in Tenant, NEW todo, Begin(r, t, todo)
      PROVE  NoNewClaim(r)
  <2>1. Incoming(t, todo).claims = FALSE
    BY DEF Incoming
  <2> QED
    BY <1>2, <1>6, <2>1, ClaimsStay DEF Begin
<1> QED
  BY <1>3, <1>4, <1>5, <1>6

LEMMA NoNewClaimKeeps ==
  ASSUME FoundersInv, NEW r \in Request, NoNewClaim(r)
  PROVE  FoundersInv'
BY DEF FoundersInv, NoNewClaim

LEMMA ClaimsKeep ==
  ASSUME SessionInv, FoundersInv, NEW r \in Request, NEW c \in Conn, ClaimSlug(r, c)
  PROVE  FoundersInv'
<1>1. req[r] \in Session /\ TypeInv /\ req[r].todo # <<>>
  BY DEF SessionInv, TypeInv, ClaimSlug, NextIs
<1>2. UNCHANGED <<tenants, founders>>
  BY DEF ClaimSlug
<1>3. CASE req[r].tenant \in tenants
  BY <1>2, <1>3, CutClaims, NoNewClaimKeeps DEF ClaimSlug
<1>4. CASE req[r].tenant \notin tenants
  <2> DEFINE on == Onward(r, c)
             me == [on EXCEPT !.claims = TRUE]
  <2>1. /\ req' = [req EXCEPT ![r] = me]
        /\ \A q \in Request \ {r} : ~(req[q].claims /\ req[q].tenant = req[r].tenant)
    BY <1>4 DEF ClaimSlug
  <2>2. on \in Session /\ on.tenant = req[r].tenant
    BY <1>1, OnwardIs
  <2> HIDE DEF on
  <2>3. me.tenant = req[r].tenant
    BY <2>2 DEF Session
  <2> HIDE DEF me
  <2>4. req'[r] = me /\ \A q \in Request : q # r => req'[q] = req[q]
    BY <1>1, <2>1 DEF TypeInv
  <2> QED
    BY <1>2, <1>4, <2>1, <2>3, <2>4 DEF FoundersInv
<1> QED
  BY <1>3, <1>4

LEMMA CommitsKeep ==
  ASSUME SessionInv, FoundersInv, NEW r \in Request, CommitTransaction(r)
  PROVE  FoundersInv'
<1> DEFINE rel == Released(req[r])
           t == req[r].tenant
<1>1. /\ req[r] \in Session /\ req \in [Request -> Session]
      /\ founders \in [Tenant -> Nat] /\ tenants \subseteq Tenant
  BY DEF SessionInv, TypeInv
<1>2. t \in Tenant
  BY Rest DEF CommitTransaction
<1>3. rel \in Session /\ rel.claims = FALSE
  BY <1>1, ReleasedIs
<1>4. /\ tenants' = IF req[r].claims THEN tenants \cup {t} ELSE tenants
      /\ founders' = IF req[r].claims THEN [founders EXCEPT ![t] = founders[t] + 1] ELSE founders
  BY DEF CommitTransaction
<1>5. PICK me : req' = [req EXCEPT ![r] = me] /\ me.claims = FALSE
  <2>1. PICK s \in {"commit", "save"} :
          req' = [req EXCEPT ![r] =
            [rel EXCEPT
               !.todo = Tail(req[r].todo),
               !.saved = (req[r].saved \/ s = "save"),
               !.owes = IF req[r].unsaved = "nothing" THEN req[r].owes
                        ELSE req[r].unsaved = "change"]]
    BY DEF CommitTransaction
  <2>2. PICK saved, owes \in BOOLEAN :
          req' = [req EXCEPT ![r] =
            [rel EXCEPT !.todo = Tail(req[r].todo), !.saved = saved, !.owes = owes]]
    <3> DEFINE saved == req[r].saved \/ s = "save"
               owes == IF req[r].unsaved = "nothing" THEN req[r].owes ELSE req[r].unsaved = "change"
    <3>1. saved \in BOOLEAN /\ owes \in BOOLEAN
      BY <1>1 DEF Session
    <3> QED
      BY <2>1, <3>1
  <2> HIDE DEF rel
  <2>3. [rel EXCEPT !.todo = Tail(req[r].todo), !.saved = saved, !.owes = owes].claims = FALSE
    BY <1>3 DEF Session
  <2> QED
    BY <2>2, <2>3
<1> HIDE DEF rel, t
<1>6. /\ req'[r].claims = FALSE /\ \A q \in Request : q # r => req'[q] = req[q]
  BY <1>1, <1>5
<1>7. CASE ~req[r].claims
  <2>1. UNCHANGED <<tenants, founders>>
    BY <1>4, <1>7
  <2> QED
    BY <1>6, <2>1 DEF FoundersInv
<1>8. CASE req[r].claims
  <2>1. /\ founders' = [founders EXCEPT ![t] = founders[t] + 1]
        /\ tenants' = tenants \cup {t}
    BY <1>4, <1>8
  <2>2. founders[t] = 0 /\ \A q \in Request : q # r /\ req[q].claims => req[q].tenant # t
    BY <1>2, <1>8 DEF FoundersInv, t
  <2>3. \A q \in Request : req'[q].claims => req'[q].tenant \notin tenants'
    BY <1>6, <2>1, <2>2 DEF FoundersInv
  <2>4. \A p, q \in Request :
          p # q /\ req'[p].claims /\ req'[q].claims => req'[p].tenant # req'[q].tenant
    BY <1>6 DEF FoundersInv
  <2>5. \A u \in Tenant : founders'[u] <= 1 /\ (u \notin tenants' => founders'[u] = 0)
    BY <1>1, <1>2, <2>1, <2>2 DEF FoundersInv
  <2> QED
    BY <2>3, <2>4, <2>5 DEF FoundersInv
<1> QED
  BY <1>7, <1>8

\* However registrations overlap, over however many connections: at most one
\* of those for a slug commits its tenant (the unique slug, and no check).
THEOREM FounderUnique == Spec => []OneFounder
<1>1. Init => FoundersInv
  BY IdleIs DEF Init, FoundersInv
<1>2. SessionInv /\ FoundersInv /\ [Next]_vars => FoundersInv'
  <2> SUFFICES ASSUME SessionInv, FoundersInv, [Next]_vars
               PROVE  FoundersInv'
    OBVIOUS
  <2>1. CASE UNCHANGED vars
    BY <2>1 DEF vars, FoundersInv
  <2>2. tenants \subseteq Tenant
    BY DEF SessionInv, TypeInv
  <2>3. CASE Next
    BY <2>2, <2>3, StatementsClaimNothing, EndingsClaimNothing, NoNewClaimKeeps, ClaimsKeep, CommitsKeep
       DEF Next, Step
  <2> QED
    BY <2>1, <2>3
<1>3. FoundersInv => OneFounder
  BY DEF FoundersInv, OneFounder
<1> QED
  BY <1>1, <1>2, <1>3, SessionsSound, PTL DEF Spec


--------------------------------------------------------------------------------
(* What follows from the order of an endpoint's statements *)

(***************************************************************************)
(* The rest of an endpoint keeps to the rules the endpoint keeps to, if    *)
(* what a statement does to its session is what the rules take it to do.   *)
(***************************************************************************)
LEMMA TailIs ==
  ASSUME NEW todo \in Seq(STRING), todo # <<>>
  PROVE  /\ Len(todo) \in Nat /\ Len(todo) >= 1 /\ Len(Tail(todo)) = Len(todo) - 1
         /\ Head(todo) = todo[1]
         /\ \A i \in 1..Len(Tail(todo)) : Tail(todo)[i] = todo[i + 1]
OBVIOUS

LEMMA InScopeGoesOn ==
  ASSUME NEW todo \in Seq(STRING), todo # <<>>,
         NEW scoped \in BOOLEAN, NEW saved \in BOOLEAN,
         NEW scoped2 \in BOOLEAN, NEW saved2 \in BOOLEAN,
         InScope(todo, scoped, saved),
         scoped /\ Head(todo) \notin Ends => scoped2 \/ saved2,
         saved /\ Head(todo) # "close" => saved2,
         Head(todo) \in {"context", "bypass"} => scoped2,
         Head(todo) = "save" => saved2
  PROVE  InScope(Tail(todo), scoped2, saved2)
<1> DEFINE rest == Tail(todo)
<1>1. /\ Len(todo) \in Nat /\ Len(todo) >= 1 /\ Len(rest) = Len(todo) - 1
      /\ Head(todo) = todo[1]
      /\ \A i \in 1..Len(rest) : rest[i] = todo[i + 1]
  BY TailIs
<1> HIDE DEF rest
<1> SUFFICES ASSUME NEW i \in 1..Len(rest), rest[i] \in Looks
             PROVE  \/ scoped2 /\ \A j \in 1..(i - 1) : rest[j] \notin Ends
                    \/ saved2 /\ \A j \in 1..(i - 1) : rest[j] # "close"
                    \/ \E k \in 1..(i - 1) :
                         /\ rest[k] \in {"context", "bypass"}
                         /\ \A j \in (k + 1)..(i - 1) : rest[j] \notin Ends
                    \/ \E k \in 1..(i - 1) :
                         /\ rest[k] = "save"
                         /\ \A j \in (k + 1)..(i - 1) : rest[j] # "close"
  BY DEF InScope, rest
<1>2. i + 1 \in 1..Len(todo) /\ todo[i + 1] \in Looks
  BY <1>1
<1>3. \A j \in 1..(i - 1) : rest[j] = todo[j + 1] /\ j + 1 \in 1..i
  BY <1>1
<1>4. \/ scoped /\ \A j \in 1..i : todo[j] \notin Ends
      \/ saved /\ \A j \in 1..i : todo[j] # "close"
      \/ \E k \in 1..i : todo[k] \in {"context", "bypass"} /\ \A j \in (k + 1)..i : todo[j] \notin Ends
      \/ \E k \in 1..i : todo[k] = "save" /\ \A j \in (k + 1)..i : todo[j] # "close"
  <2>1. (i + 1) - 1 = i
    BY <1>1
  <2> QED
    BY <1>2, <2>1 DEF InScope
<1>5. "close" \in Ends
  BY DEF Ends
<1>6. CASE scoped /\ \A j \in 1..i : todo[j] \notin Ends
  <2>1. Head(todo) \notin Ends
    BY <1>1, <1>6
  <2>2. \A j \in 1..(i - 1) : rest[j] \notin Ends /\ rest[j] # "close"
    BY <1>3, <1>5, <1>6
  <2>3. scoped2 \/ saved2
    BY <1>6, <2>1
  <2> QED
    BY <2>2, <2>3
<1>7. CASE saved /\ \A j \in 1..i : todo[j] # "close"
  <2>1. Head(todo) # "close"
    BY <1>1, <1>7
  <2>2. \A j \in 1..(i - 1) : rest[j] # "close"
    BY <1>3, <1>7
  <2>3. saved2
    BY <1>7, <2>1
  <2> QED
    BY <2>2, <2>3
<1>8. ASSUME NEW k \in 1..i, todo[k] \in {"context", "bypass"}, \A j \in (k + 1)..i : todo[j] \notin Ends
      PROVE  \/ scoped2 /\ \A j \in 1..(i - 1) : rest[j] \notin Ends
             \/ \E l \in 1..(i - 1) :
                  /\ rest[l] \in {"context", "bypass"}
                  /\ \A j \in (l + 1)..(i - 1) : rest[j] \notin Ends
  <2>1. CASE k = 1
    <3>1. scoped2
      BY <1>1, <1>8, <2>1
    <3>2. \A j \in 1..(i - 1) : rest[j] \notin Ends
      BY <1>3, <1>8, <2>1
    <3> QED
      BY <3>1, <3>2
  <2>2. CASE k # 1
    <3>1. k - 1 \in 1..(i - 1) /\ rest[k - 1] = todo[k]
      BY <1>1, <2>2
    <3>2. \A j \in ((k - 1) + 1)..(i - 1) : j \in 1..(i - 1) /\ j + 1 \in (k + 1)..i
      BY <1>1, <2>2
    <3>3. \A j \in ((k - 1) + 1)..(i - 1) : rest[j] \notin Ends
      BY <1>3, <1>8, <3>2
    <3> QED
      BY <1>8, <3>1, <3>3
  <2> QED
    BY <2>1, <2>2
<1>9. ASSUME NEW k \in 1..i, todo[k] = "save", \A j \in (k + 1)..i : todo[j] # "close"
      PROVE  \/ saved2 /\ \A j \in 1..(i - 1) : rest[j] # "close"
             \/ \E l \in 1..(i - 1) :
                  rest[l] = "save" /\ \A j \in (l + 1)..(i - 1) : rest[j] # "close"
  <2>1. CASE k = 1
    <3>1. saved2
      BY <1>1, <1>9, <2>1
    <3>2. \A j \in 1..(i - 1) : rest[j] # "close"
      BY <1>3, <1>9, <2>1
    <3> QED
      BY <3>1, <3>2
  <2>2. CASE k # 1
    <3>1. k - 1 \in 1..(i - 1) /\ rest[k - 1] = todo[k]
      BY <1>1, <2>2
    <3>2. \A j \in ((k - 1) + 1)..(i - 1) : j \in 1..(i - 1) /\ j + 1 \in (k + 1)..i
      BY <1>1, <2>2
    <3>3. \A j \in ((k - 1) + 1)..(i - 1) : rest[j] # "close"
      BY <1>3, <1>9, <3>2
    <3> QED
      BY <1>9, <3>1, <3>3
  <2> QED
    BY <2>1, <2>2
<1> QED
  BY <1>4, <1>6, <1>7, <1>8, <1>9

LEMMA SealedGoesOn ==
  ASSUME NEW todo \in Seq(STRING), todo # <<>>, NEW k \in Nat, Sealed(todo, k),
         k = 0 => Head(todo) \notin {"commit", "save"}
  PROVE  /\ k > 0 => Sealed(Tail(todo), k - 1)
         /\ k = 0 => Head(todo) \notin Breaks /\ Sealed(Tail(todo), 0)
<1> DEFINE rest == Tail(todo)
<1>1. /\ Len(todo) \in Nat /\ Len(todo) >= 1 /\ Len(rest) = Len(todo) - 1
      /\ Head(todo) = todo[1]
      /\ \A i \in 1..Len(rest) : rest[i] = todo[i + 1]
  BY TailIs
<1>2. PICK j \in (k + 1)..Len(todo) :
        todo[j] \in {"commit", "save"} /\ \A m \in (k + 1)..(j - 1) : todo[m] \notin Breaks
  BY DEF Sealed
<1> HIDE DEF rest
<1>3. CASE k > 0
  <2>1. j - 1 \in ((k - 1) + 1)..Len(rest) /\ rest[j - 1] = todo[j]
    BY <1>1, <1>3
  <2>2. \A m \in ((k - 1) + 1)..((j - 1) - 1) : rest[m] = todo[m + 1] /\ m + 1 \in (k + 1)..(j - 1)
    BY <1>1, <1>3
  <2>3. Sealed(rest, k - 1)
    BY <1>2, <2>1, <2>2 DEF Sealed
  <2> QED
    BY <1>3, <2>3 DEF rest
<1>4. CASE k = 0
  <2>1. j > 1
    BY <1>1, <1>2, <1>4
  <2>2. j - 1 \in (0 + 1)..Len(rest) /\ rest[j - 1] = todo[j] /\ 1 \in (k + 1)..(j - 1)
    BY <1>1, <1>4, <2>1
  <2>3. \A m \in (0 + 1)..((j - 1) - 1) : rest[m] = todo[m + 1] /\ m + 1 \in (k + 1)..(j - 1)
    BY <1>1, <1>4
  <2>4. Sealed(rest, 0)
    BY <1>2, <2>2, <2>3 DEF Sealed
  <2> QED
    BY <1>1, <1>2, <1>4, <2>2, <2>4 DEF rest
<1> QED
  BY <1>3, <1>4

LEMMA EnteredGoesOn ==
  ASSUME NEW todo \in Seq(STRING), todo # <<>>, NEW i \in Nat, Entered(todo, i)
  PROVE  /\ i > 0 => Entered(Tail(todo), i - 1)
         /\ i = 0 => Entered(Tail(todo), 0) \/ (Head(todo) = "entry" /\ Sealed(Tail(todo), 0))
<1> DEFINE rest == Tail(todo)
<1>1. /\ Len(todo) \in Nat /\ Len(todo) >= 1 /\ Len(rest) = Len(todo) - 1
      /\ Head(todo) = todo[1]
      /\ \A j \in 1..Len(rest) : rest[j] = todo[j + 1]
  BY TailIs
<1>2. PICK k \in (i + 1)..Len(todo) : todo[k] = "entry" /\ Sealed(todo, k)
  BY DEF Entered
<1>3. k \in Nat /\ k > 0 /\ Sealed(rest, k - 1)
  BY <1>1, <1>2, SealedGoesOn
<1> HIDE DEF rest
<1>4. CASE i > 0
  <2>1. k - 1 \in ((i - 1) + 1)..Len(rest) /\ rest[k - 1] = "entry"
    BY <1>1, <1>2, <1>4
  <2>2. Entered(rest, i - 1)
    BY <1>3, <2>1 DEF Entered
  <2> QED
    BY <1>4, <2>2 DEF rest
<1>5. CASE i = 0 /\ k > 1
  <2>1. k - 1 \in (0 + 1)..Len(rest) /\ rest[k - 1] = "entry"
    BY <1>1, <1>2, <1>5
  <2>2. Entered(rest, 0)
    BY <1>3, <2>1 DEF Entered
  <2> QED
    BY <1>5, <2>2 DEF rest
<1>6. CASE i = 0 /\ k = 1
  BY <1>1, <1>2, <1>3, <1>6 DEF rest
<1> QED
  BY <1>3, <1>4, <1>5, <1>6


\* What a statement h does to the marks of its session: unsaved from u to u2,
\* owes from o to o2.
Marks(h, u, o, u2, o2) ==
  \/ h = "entry" /\ u2 = "entry" /\ (o2 => o)
  \/ h \in {"write", "join"} /\ u2 = "change" /\ (o2 => o)
  \/ h \in {"commit", "save"} /\ u2 = "nothing" /\ (o2 => (u = "nothing" /\ o) \/ u = "change")
  \/ h \in {"close", "seed"} /\ u2 \in {u, "nothing"} /\ (o2 => o)
  \/ h \notin Breaks \cup {"entry"} /\ u2 = u /\ (o2 => o)

LEMMA SettlesGoesOn ==
  ASSUME NEW todo \in Seq(STRING), todo # <<>>, NEW u, NEW u2, NEW o \in BOOLEAN, NEW o2 \in BOOLEAN,
         Settles(todo, u, o), Marks(Head(todo), u, o, u2, o2)
  PROVE  Settles(Tail(todo), u2, o2)
<1> DEFINE rest == Tail(todo)
           h == Head(todo)
           due == o2 \/ u2 = "change"
<1>1. /\ Len(todo) \in Nat /\ Len(todo) >= 1 /\ Len(rest) = Len(todo) - 1
      /\ h = todo[1]
      /\ \A i \in 1..Len(rest) : rest[i] = todo[i + 1]
  BY TailIs
<1>2. \A i \in Nat : Entered(todo, i) =>
        /\ i > 0 => Entered(rest, i - 1)
        /\ i = 0 => Entered(rest, 0) \/ (h = "entry" /\ Sealed(rest, 0))
  BY EnteredGoesOn
<1>3. Sealed(todo, 0) /\ h \notin {"commit", "save"} => h \notin Breaks /\ Sealed(rest, 0)
  BY SealedGoesOn
<1>4. /\ \A i \in 1..Len(todo) : todo[i] \in {"write", "join"} => Entered(todo, i)
      /\ o \/ u = "change" => Entered(todo, 0) \/ (u = "entry" /\ Sealed(todo, 0))
  BY DEF Settles
<1>5. Marks(h, u, o, u2, o2)
  OBVIOUS
<1> HIDE DEF rest, h
<1>6. \A i \in 1..Len(rest) : rest[i] \in {"write", "join"} => Entered(rest, i)
  <2> SUFFICES ASSUME NEW i \in 1..Len(rest), rest[i] \in {"write", "join"} PROVE Entered(rest, i)
    OBVIOUS
  <2>1. i + 1 \in 1..Len(todo) /\ todo[i + 1] \in {"write", "join"} /\ i + 1 \in Nat /\ i + 1 > 0 /\ (i + 1) - 1 = i
    BY <1>1
  <2> QED
    BY <1>2, <1>4, <2>1
<1>7. ASSUME due PROVE Entered(rest, 0) \/ (u2 = "entry" /\ Sealed(rest, 0))
  <2>1. 0 \in Nat /\ 1 \in Nat /\ 1 - 1 = 0 /\ 1 > 0 /\ 1 \in 1..Len(todo)
    BY <1>1
  <2>2. CASE h = "entry" /\ u2 = "entry" /\ (o2 => o)
    <3>1. o
      BY <1>7, <2>2
    <3>2. CASE Entered(todo, 0)
      BY <1>2, <2>1, <2>2, <3>2
    <3>3. CASE Sealed(todo, 0)
      BY <1>3, <2>2, <3>3
    <3> QED
      BY <1>4, <3>1, <3>2, <3>3
  <2>3. CASE h \in {"write", "join"}
    BY <1>1, <1>2, <1>4, <2>1, <2>3
  <2>4. CASE /\ h \in {"commit", "save"} /\ u2 = "nothing"
             /\ o2 => (u = "nothing" /\ o) \/ u = "change"
    <3>1. Entered(todo, 0)
      BY <1>4, <1>7, <2>4
    <3> QED
      BY <1>2, <2>1, <2>4, <3>1
  <2>5. CASE h \in {"close", "seed"} /\ u2 \in {u, "nothing"} /\ (o2 => o)
    <3>1. h \in Breaks
      BY <2>5 DEF Breaks
    <3>2. Entered(todo, 0)
      BY <1>3, <1>4, <1>7, <2>5, <3>1
    <3> QED
      BY <1>2, <2>1, <2>5, <3>2
  <2>6. CASE h \notin Breaks \cup {"entry"} /\ u2 = u /\ (o2 => o)
    <3>1. h \notin {"commit", "save"}
      BY <2>6 DEF Breaks
    <3> QED
      BY <1>2, <1>3, <1>4, <1>7, <2>1, <2>6, <3>1
  <2> QED
    BY <1>5, <2>2, <2>3, <2>4, <2>5, <2>6 DEF Marks
<1> QED
  BY <1>6, <1>7 DEF Settles, rest


--------------------------------------------------------------------------------
(* What each action does to the session of its request *)

Handlers == Scripts \cup Operations \cup {Registration}

\* A session in the context of the platform sees every tenant's rows.
Bypassed ==
  \A r \in Request : req[r].scope = "all" => req[r].conn # NoConn /\ conn[req[r].conn].bypass

\* The next statement of r needs a row of its tenant and cannot see it, in a
\* session in which nothing was saved.
Unseen(r) ==
  /\ req[r].todo # <<>> /\ Head(req[r].todo) \in Looks /\ ~req[r].saved
  /\ \E c \in Conn : On(r, c) /\ req[r].tenant \notin Visible(c)

Started(r) ==
  /\ req'[r].todo \in Handlers
  /\ req'[r].scope = "none" /\ req'[r].saved = FALSE
  /\ req'[r].unsaved = "nothing" /\ req'[r].owes = FALSE

Stopped(r) ==
  /\ req'[r].todo = <<>>
  /\ req'[r].scope = "none" /\ req'[r].unsaved = "nothing" /\ req'[r].owes = FALSE

Waited(r) ==
  /\ req'[r].todo = req[r].todo /\ req'[r].scope = req[r].scope /\ req'[r].saved = req[r].saved
  /\ req'[r].unsaved = req[r].unsaved /\ req'[r].owes = req[r].owes

Proceeded(r) ==
  LET h == Head(req[r].todo) IN
  /\ req[r].todo # <<>> /\ req'[r].todo = Tail(req[r].todo)
  /\ req[r].scope # "none" /\ h \notin Ends => req'[r].scope # "none" \/ req'[r].saved
  /\ req[r].saved /\ h # "close" => req'[r].saved
  /\ h \in {"context", "bypass"} => req'[r].scope # "none"
  /\ h = "save" => req'[r].saved
  /\ Marks(h, req[r].unsaved, req[r].owes, req'[r].unsaved, req'[r].owes)

\* The pool's side: no other session is disturbed, and a bypass is on.
Undisturbed(r) ==
  /\ \A q \in Request : q # r =>
       /\ req'[q] = req[q]
       /\ req[q].conn # NoConn => conn'[req[q].conn] = conn[req[q].conn]
  /\ req'[r].scope = "all" => req'[r].conn # NoConn /\ conn'[req'[r].conn].bypass

Moved(r) ==
  /\ Undisturbed(r)
  /\ Started(r) \/ Stopped(r) \/ Waited(r) \/ Proceeded(r)
  /\ req'[r].hidden = "otherwise" => req[r].hidden = "otherwise" \/ Unseen(r)

LEMMA IdleMarks ==
  /\ Cut.unsaved = "nothing" /\ Cut.owes = FALSE /\ Cut.saved = FALSE /\ Cut.hidden = "never"
  /\ Idle.unsaved = "nothing" /\ Idle.owes = FALSE /\ Idle.saved = FALSE /\ Idle.hidden = "never"
BY DEF Cut, Idle, Incoming

LEMMA OnwardMarks ==
  ASSUME SessionInv, NEW r \in Request, NEW c \in Conn
  PROVE  Onward(r, c).unsaved = req[r].unsaved /\ Onward(r, c).owes = req[r].owes
BY DEF Onward, SessionInv, TypeInv, Session

LEMMA LookingMarks ==
  ASSUME NEW me \in Session, NEW c \in Conn
  PROVE  /\ Looking(me, c).saved = me.saved /\ Looking(me, c).owes = me.owes
         /\ Looking(me, c).unsaved = me.unsaved
         /\ Looking(me, c).hidden = IF me.tenant \in Visible(c) THEN me.hidden
                                    ELSE IF me.saved THEN "after save" ELSE "otherwise"
BY DEF Looking, Session

LEMMA ReleasedMarks ==
  ASSUME NEW me \in Session
  PROVE  /\ Released(me).saved = me.saved /\ Released(me).owes = me.owes
         /\ Released(me).unsaved = "nothing" /\ Released(me).hidden = me.hidden
BY DEF Released, Session

\* r holds c after its step, in the scope it had.
LEMMA Holds ==
  ASSUME SessionInv, Bypassed, NEW r \in Request, NEW c \in Conn, On(r, c), NEW me \in Session,
         req' = [req EXCEPT ![r] = me], me.conn = c, me.scope = req[r].scope, conn' = conn
  PROVE  Undisturbed(r) /\ req'[r] = me
<1>1. req'[r] = me /\ \A q \in Request : q # r => req'[q] = req[q]
  BY DEF SessionInv, TypeInv
<1>2. req[r].conn # NoConn => c = req[r].conn
  BY Working
<1> QED
  BY <1>1, <1>2 DEF Undisturbed, Bypassed

\* r holds nothing after its step.
LEMMA Frees ==
  ASSUME SessionInv, NEW r \in Request, NEW c \in Conn \cup {NoConn},
         c = req[r].conn \/ (c \in Conn /\ On(r, c)), NEW me \in Session,
         req' = [req EXCEPT ![r] = me], me.scope = "none",
         \A d \in Conn \ {c} : conn'[d] = conn[d]
  PROVE  Undisturbed(r) /\ req'[r] = me
<1>1. req'[r] = me /\ \A q \in Request : q # r => req'[q] = req[q]
  BY DEF SessionInv, TypeInv
<1>2. c # NoConn => \A q \in Request : q # r => req[q].conn # c
  <2>1. CASE c \in Conn /\ On(r, c)
    BY <2>1, Working
  <2>2. CASE c = req[r].conn
    BY <2>2 DEF SessionInv, PoolInv
  <2> QED
    BY <2>1, <2>2
<1>3. ASSUME NEW q \in Request, q # r, req[q].conn # NoConn
      PROVE  conn'[req[q].conn] = conn[req[q].conn]
  <2>1. req[q].conn \in Conn
    BY <1>3 DEF SessionInv, TypeInv, Session
  <2> QED
    BY <1>2, <1>3, <2>1
<1> QED
  BY <1>1, <1>3 DEF Undisturbed

\* r is cut short.
LEMMA CutMoves ==
  ASSUME SessionInv, NEW r \in Request, NEW c \in Conn \cup {NoConn},
         c = req[r].conn \/ (c \in Conn /\ On(r, c)),
         NEW me \in Session, me.scope = "none", me.todo = <<>>, me.unsaved = "nothing", me.owes = FALSE,
         me.hidden = "otherwise" => req[r].hidden = "otherwise" \/ Unseen(r),
         req' = [req EXCEPT ![r] = me],
         GiveBack(c)
  PROVE  Moved(r)
<1>1. \A d \in Conn \ {c} : conn'[d] = conn[d]
  BY GivenBack DEF SessionInv
<1>2. Undisturbed(r) /\ req'[r] = me
  BY <1>1, Frees
<1> QED
  BY <1>2 DEF Moved, Stopped

LEMMA CutMovesPlain ==
  ASSUME SessionInv, NEW r \in Request, NEW c \in Conn \cup {NoConn},
         c = req[r].conn \/ (c \in Conn /\ On(r, c)),
         req' = [req EXCEPT ![r] = Cut], GiveBack(c)
  PROVE  Moved(r)
<1>1. \A d \in Conn \ {c} : conn'[d] = conn[d]
  BY GivenBack DEF SessionInv
<1>2. Undisturbed(r) /\ req'[r] = Cut
  BY <1>1, IdleIs, Frees
<1>3. req'[r].hidden # "otherwise"
  BY <1>2, IdleMarks
<1> QED
  BY <1>2, <1>3, IdleIs, IdleMarks DEF Moved, Stopped


\* The statements the rules name.
LEMMA Named ==
  /\ {"list", "find", "put", "write", "entry"} = Looks
  /\ Ends = {"commit", "save", "close"}
  /\ Breaks = {"write", "join", "commit", "save", "close", "seed"}
BY DEF Looks, Ends, Breaks

LEMMA ContextMoves ==
  ASSUME SessionInv, Bypassed, NEW r \in Request, NEW c \in Conn,
         SetTenantContext(r, c) \/ SetPlatformContext(r, c)
  PROVE  Moved(r)
<1> USE SessionsAssumption
<1>1. TypeInv /\ req \in [Request -> Session] /\ conn \in [Conn -> Settings] /\ On(r, c)
  BY DEF SessionInv, TypeInv, SetTenantContext, SetPlatformContext
<1>2. NextIs(r, "context") \/ NextIs(r, "bypass")
  BY DEF SetTenantContext, SetPlatformContext
<1>3. PICK s \in {"own", "all"} :
        /\ req' = [req EXCEPT ![r] = [Onward(r, c) EXCEPT !.scope = s]]
        /\ \A d \in Conn \ {c} : conn'[d] = conn[d]
        /\ s = "all" => conn'[c].bypass
  <2>1. CASE SetTenantContext(r, c)
    BY <1>1, <2>1 DEF SetTenantContext
  <2>2. CASE SetPlatformContext(r, c)
    <3>1. conn' = [conn EXCEPT ![c] = [conn[c] EXCEPT !.bypass = TRUE]]
      BY <2>2 DEF SetPlatformContext
    <3>2. conn'[c].bypass /\ \A d \in Conn \ {c} : conn'[d] = conn[d]
      BY <1>1, <3>1 DEF Settings
    <3> QED
      BY <2>2, <3>2 DEF SetPlatformContext
  <2> QED
    BY <2>1, <2>2
<1> DEFINE on == Onward(r, c)
           me == [on EXCEPT !.scope = s]
<1>4. req[r].todo # <<>>
  BY <1>2 DEF NextIs
<1>5. /\ on \in Session /\ on.todo = Tail(req[r].todo) /\ on.conn = c
      /\ on.saved = req[r].saved /\ on.hidden = req[r].hidden
      /\ on.unsaved = req[r].unsaved /\ on.owes = req[r].owes
  BY <1>1, <1>4, OnwardIs, OnwardMarks
<1>6. req' = [req EXCEPT ![r] = me]
  BY <1>3
<1> HIDE DEF on
<1>7. /\ me.todo = on.todo /\ me.conn = c /\ me.scope = s /\ me.saved = on.saved
      /\ me.hidden = on.hidden /\ me.unsaved = on.unsaved /\ me.owes = on.owes
  BY <1>5 DEF Session, Scope
<1> HIDE DEF me
<1>8. req'[r] = me /\ \A q \in Request : q # r => req'[q] = req[q]
  BY <1>1, <1>6
<1>9. \A q \in Request : q # r /\ req[q].conn # NoConn => conn'[req[q].conn] = conn[req[q].conn]
  <2> SUFFICES ASSUME NEW q \in Request, q # r, req[q].conn # NoConn
               PROVE  conn'[req[q].conn] = conn[req[q].conn]
    OBVIOUS
  <2>1. req[q].conn # c
    BY <1>1, Working
  <2>2. req[q] \in Session
    BY <1>1
  <2>3. req[q].conn \in Conn
    BY <2>2 DEF Session
  <2> QED
    BY <1>3, <2>1, <2>3
<1>10. Undisturbed(r)
  BY <1>3, <1>7, <1>8, <1>9 DEF Undisturbed
<1>11. Head(req[r].todo) \in {"context", "bypass"}
  BY <1>2 DEF NextIs
<1>12. Marks(Head(req[r].todo), req[r].unsaved, req[r].owes, req'[r].unsaved, req'[r].owes)
  BY <1>5, <1>7, <1>8, <1>11, Named DEF Marks
<1>13. Proceeded(r)
  BY <1>3, <1>4, <1>5, <1>7, <1>8, <1>11, <1>12 DEF Proceeded
<1> QED
  BY <1>5, <1>7, <1>8, <1>10, <1>13 DEF Moved

\* A statement that goes through on c in the scope it has.
LEMMA StatementMoves ==
  ASSUME SessionInv, Bypassed, NEW r \in Request, NEW c \in Conn, On(r, c), NEW me \in Session,
         NEW s, NextIs(r, s), s \notin {"context", "bypass", "save"},
         req' = [req EXCEPT ![r] = me], conn' = conn,
         me.conn = c, me.todo = Tail(req[r].todo), me.scope = req[r].scope, me.saved = req[r].saved,
         Marks(s, req[r].unsaved, req[r].owes, me.unsaved, me.owes),
         me.hidden = "otherwise" => req[r].hidden = "otherwise" \/ Unseen(r)
  PROVE  Moved(r)
<1>1. Undisturbed(r) /\ req'[r] = me
  BY Holds
<1>2. req[r].todo # <<>> /\ Head(req[r].todo) = s
  BY DEF NextIs
<1>3. Proceeded(r)
  BY <1>1, <1>2 DEF Proceeded
<1> QED
  BY <1>1, <1>3 DEF Moved

LEMMA SelectMoves ==
  ASSUME SessionInv, Bypassed, NEW r \in Request, NEW c \in Conn, SelectSome(r, c)
  PROVE  Moved(r)
<1> DEFINE on == Onward(r, c)
           me == Looking(on, c)
<1>1. On(r, c) /\ NextIs(r, "list") /\ TypeInv /\ conn \in [Conn -> Settings]
  BY DEF SelectSome, SessionInv, TypeInv
<1>2. req[r].todo # <<>> /\ Head(req[r].todo) = "list"
  BY <1>1 DEF NextIs
<1>3. /\ on \in Session /\ on.todo = Tail(req[r].todo) /\ on.conn = c
      /\ on.tenant = req[r].tenant /\ on.scope = req[r].scope /\ on.saved = req[r].saved
      /\ on.hidden = req[r].hidden /\ on.unsaved = req[r].unsaved /\ on.owes = req[r].owes
  BY <1>1, <1>2, OnwardIs, OnwardMarks
<1>4. req' = [req EXCEPT ![r] = me] /\ conn' = conn
  BY DEF SelectSome
<1> HIDE DEF on
<1>5. /\ me \in Session /\ me.todo = on.todo /\ me.conn = c /\ me.scope = on.scope
      /\ me.saved = on.saved /\ me.owes = on.owes /\ me.unsaved = on.unsaved
      /\ me.hidden = IF on.tenant \in Visible(c) THEN on.hidden
                     ELSE IF on.saved THEN "after save" ELSE "otherwise"
  BY <1>1, <1>3, LookingIs, LookingMarks
<1> HIDE DEF me
<1>6. me.hidden = "otherwise" => req[r].hidden = "otherwise" \/ Unseen(r)
  <2> SUFFICES ASSUME me.hidden = "otherwise", req[r].hidden # "otherwise" PROVE Unseen(r)
    OBVIOUS
  <2>1. req[r].tenant \notin Visible(c) /\ ~req[r].saved
    BY <1>3, <1>5
  <2> QED
    BY <1>1, <1>2, <2>1, Named DEF Unseen
<1>7. Marks("list", req[r].unsaved, req[r].owes, me.unsaved, me.owes)
  BY <1>3, <1>5, Named DEF Marks
<1> QED
  BY <1>1, <1>3, <1>4, <1>5, <1>6, <1>7, StatementMoves


LEMMA TouchMoves ==
  ASSUME SessionInv, Bypassed, NEW r \in Request, NEW c \in Conn, TouchRow(r, c)
  PROVE  Moved(r)
<1>1. TypeInv /\ conn \in [Conn -> Settings] /\ req[r] \in Session
  BY DEF SessionInv, TypeInv
<1>2. PICK s \in NeedsRow :
        /\ NextIs(r, s) /\ On(r, c)
        /\ IF req[r].tenant \in Visible(c)
           THEN /\ req' = [req EXCEPT ![r] = [Looking(Onward(r, c), c) EXCEPT !.unsaved = Unsaved(req[r], s)]]
                /\ UNCHANGED <<conn, leaks>>
           ELSE /\ req' = [req EXCEPT ![r] = [Cut EXCEPT !.hidden = Looking(req[r], c).hidden]]
                /\ GiveBack(c)
  BY DEF TouchRow
<1>3. req[r].todo # <<>> /\ Head(req[r].todo) = s
  BY <1>2 DEF NextIs
<1>4. CASE req[r].tenant \in Visible(c)
  <2> DEFINE on == Onward(r, c)
             look == Looking(on, c)
             un == Unsaved(req[r], s)
             me == [look EXCEPT !.unsaved = un]
  <2>1. /\ on \in Session /\ on.todo = Tail(req[r].todo) /\ on.conn = c
        /\ on.tenant = req[r].tenant /\ on.scope = req[r].scope /\ on.saved = req[r].saved
        /\ on.hidden = req[r].hidden /\ on.owes = req[r].owes
    BY <1>1, <1>3, OnwardIs, OnwardMarks
  <2>2. req' = [req EXCEPT ![r] = me] /\ conn' = conn
    BY <1>2, <1>4
  <2>3. /\ un = IF s = "entry" THEN "entry" ELSE IF s = "write" THEN "change" ELSE req[r].unsaved
        /\ un \in {"nothing", "change", "entry"}
    BY <1>1, <1>2 DEF Unsaved, Session, NeedsRow
  <2> HIDE DEF on, un
  <2>4. /\ look \in Session /\ look.todo = on.todo /\ look.conn = c /\ look.scope = on.scope
        /\ look.saved = on.saved /\ look.owes = on.owes
        /\ look.hidden = on.hidden
    BY <1>1, <1>4, <2>1, LookingIs, LookingMarks
  <2> HIDE DEF look
  <2>5. /\ me \in Session /\ me.todo = look.todo /\ me.conn = look.conn /\ me.scope = look.scope
        /\ me.saved = look.saved /\ me.owes = look.owes /\ me.hidden = look.hidden /\ me.unsaved = un
    BY <2>3, <2>4 DEF Session
  <2> HIDE DEF me
  <2>6. Marks(s, req[r].unsaved, req[r].owes, me.unsaved, me.owes)
    BY <1>2, <2>1, <2>3, <2>4, <2>5, Named DEF Marks, NeedsRow
  <2>7. s \notin {"context", "bypass", "save"} /\ NextIs(r, s) /\ On(r, c)
    BY <1>2 DEF NeedsRow
  <2>8. /\ me \in Session /\ me.conn = c /\ me.todo = Tail(req[r].todo) /\ me.scope = req[r].scope
        /\ me.saved = req[r].saved /\ me.hidden = req[r].hidden
    BY <2>1, <2>4, <2>5
  <2> QED
    BY <2>2, <2>6, <2>7, <2>8, StatementMoves
<1>5. CASE req[r].tenant \notin Visible(c)
  <2> DEFINE h == Looking(req[r], c).hidden
             me == [Cut EXCEPT !.hidden = h]
  <2>1. /\ h \in {"never", "after save", "otherwise"}
        /\ h = "otherwise" => ~req[r].saved
    BY <1>1, <1>5, LookingMarks
  <2>2. h = "otherwise" => Unseen(r)
    BY <1>2, <1>3, <1>5, <2>1, Named DEF Unseen, NeedsRow
  <2>3. req' = [req EXCEPT ![r] = me] /\ GiveBack(c)
    BY <1>2, <1>5
  <2> HIDE DEF h
  <2>4. /\ me \in Session /\ me.scope = "none" /\ me.todo = <<>> /\ me.unsaved = "nothing"
        /\ me.owes = FALSE /\ me.hidden = h
    BY <2>1, IdleIs, IdleMarks DEF Session
  <2> HIDE DEF me
  <2> QED
    BY <1>2, <2>2, <2>3, <2>4, CutMoves
<1> QED
  BY <1>4, <1>5

LEMMA SharedMoves ==
  ASSUME SessionInv, Bypassed, NEW r \in Request, NEW c \in Conn, TouchShared(r, c)
  PROVE  Moved(r)
<1>1. TypeInv /\ req[r] \in Session
  BY DEF SessionInv, TypeInv
<1>2. PICK s \in {"shared", "join", "answer"} :
        /\ NextIs(r, s) /\ On(r, c)
        /\ req' = [req EXCEPT ![r] = [Onward(r, c) EXCEPT !.unsaved = Unsaved(req[r], s)]]
  BY DEF TouchShared
<1>3. req[r].todo # <<>>
  BY <1>2 DEF NextIs
<1> DEFINE on == Onward(r, c)
           un == Unsaved(req[r], s)
           me == [on EXCEPT !.unsaved = un]
<1>4. /\ on \in Session /\ on.todo = Tail(req[r].todo) /\ on.conn = c
      /\ on.scope = req[r].scope /\ on.saved = req[r].saved
      /\ on.hidden = req[r].hidden /\ on.owes = req[r].owes
  BY <1>1, <1>3, OnwardIs, OnwardMarks
<1>5. /\ un = IF s = "join" THEN "change" ELSE req[r].unsaved
      /\ un \in {"nothing", "change", "entry"}
  BY <1>1, <1>2 DEF Unsaved, Session
<1>6. req' = [req EXCEPT ![r] = me] /\ conn' = conn
  BY <1>2 DEF TouchShared
<1> HIDE DEF on, un
<1>7. /\ me \in Session /\ me.todo = on.todo /\ me.conn = on.conn /\ me.scope = on.scope
      /\ me.saved = on.saved /\ me.owes = on.owes /\ me.hidden = on.hidden /\ me.unsaved = un
  BY <1>4, <1>5 DEF Session
<1> HIDE DEF me
<1>8. Marks(s, req[r].unsaved, req[r].owes, me.unsaved, me.owes)
  BY <1>2, <1>4, <1>5, <1>7, Named DEF Marks
<1> QED
  BY <1>2, <1>4, <1>6, <1>7, <1>8, StatementMoves

\* A statement that leaves the marks and the scope.
LEMMA PassMoves ==
  ASSUME SessionInv, Bypassed, NEW r \in Request, NEW c \in Conn, On(r, c), NEW me \in Session,
         NEW s \in {"lookup", "claim", "seed"}, NextIs(r, s),
         req' = [req EXCEPT ![r] = me], conn' = conn,
         me.conn = c, me.todo = Tail(req[r].todo), me.scope = req[r].scope, me.saved = req[r].saved,
         me.unsaved = req[r].unsaved, me.owes = req[r].owes, me.hidden = req[r].hidden
  PROVE  Moved(r)
<1>1. Marks(s, req[r].unsaved, req[r].owes, me.unsaved, me.owes)
  BY Named DEF Marks
<1> QED
  BY <1>1, StatementMoves

LEMMA SlugMoves ==
  ASSUME SessionInv, Bypassed, NEW r \in Request, NEW c \in Conn,
         LookUpSlug(r, c) \/ ClaimSlug(r, c)
  PROVE  Moved(r)
<1>1. TypeInv /\ On(r, c)
  BY DEF SessionInv, LookUpSlug, ClaimSlug
<1>2. PICK s \in {"lookup", "claim"} : NextIs(r, s)
  BY DEF LookUpSlug, ClaimSlug
<1>3. CASE req[r].tenant \in tenants
  <2>1. req' = [req EXCEPT ![r] = Cut] /\ GiveBack(c)
    BY <1>3 DEF LookUpSlug, ClaimSlug
  <2> QED
    BY <1>1, <2>1, CutMovesPlain
<1>4. CASE req[r].tenant \notin tenants
  <2> DEFINE on == Onward(r, c)
             me == [on EXCEPT !.claims = TRUE]
  <2>1. req' = [req EXCEPT ![r] = on] \/ req' = [req EXCEPT ![r] = me]
    BY <1>4 DEF LookUpSlug, ClaimSlug
  <2>2. conn' = conn
    BY <1>4 DEF LookUpSlug, ClaimSlug
  <2>3. /\ on \in Session /\ on.todo = Tail(req[r].todo) /\ on.conn = c
        /\ on.scope = req[r].scope /\ on.saved = req[r].saved /\ on.hidden = req[r].hidden
        /\ on.unsaved = req[r].unsaved /\ on.owes = req[r].owes
    BY <1>1, <1>2, OnwardIs, OnwardMarks DEF NextIs
  <2> HIDE DEF on
  <2>4. /\ me \in Session /\ me.todo = on.todo /\ me.conn = on.conn
        /\ me.scope = on.scope /\ me.saved = on.saved /\ me.hidden = on.hidden
        /\ me.unsaved = on.unsaved /\ me.owes = on.owes
    BY <2>3 DEF Session
  <2> HIDE DEF me
  <2> QED
    BY <1>1, <1>2, <2>1, <2>2, <2>3, <2>4, PassMoves
<1> QED
  BY <1>3, <1>4

LEMMA SeedReadMoves ==
  ASSUME SessionInv, Bypassed, NEW r \in Request, NEW c \in Conn, SeedRead(r, c)
  PROVE  Moved(r)
<1>1. TypeInv /\ req[r] \in Session
  BY DEF SessionInv, TypeInv
<1>2. NextIs(r, "seed") /\ On(r, c) /\ conn' = conn
  BY DEF SeedRead
<1>3. CASE catalog
  <2> DEFINE me == Onward(r, c)
  <2>1. req' = [req EXCEPT ![r] = me]
    BY <1>3 DEF SeedRead
  <2>2. /\ me \in Session /\ me.todo = Tail(req[r].todo) /\ me.conn = c
        /\ me.scope = req[r].scope /\ me.saved = req[r].saved /\ me.hidden = req[r].hidden
        /\ me.unsaved = req[r].unsaved /\ me.owes = req[r].owes
    BY <1>1, <1>2, OnwardIs, OnwardMarks DEF NextIs
  <2> HIDE DEF me
  <2> QED
    BY <1>2, <2>1, <2>2, PassMoves
<1>4. CASE ~catalog
  <2> DEFINE me == [req[r] EXCEPT !.conn = c, !.seeding = TRUE]
  <2>1. req' = [req EXCEPT ![r] = me]
    BY <1>4 DEF SeedRead
  <2>2. /\ me \in Session /\ me.todo = req[r].todo /\ me.conn = c
        /\ me.scope = req[r].scope /\ me.saved = req[r].saved /\ me.hidden = req[r].hidden
        /\ me.unsaved = req[r].unsaved /\ me.owes = req[r].owes
    BY <1>1 DEF Session
  <2> HIDE DEF me
  <2>3. Undisturbed(r) /\ req'[r] = me
    BY <1>2, <2>1, <2>2, Holds
  <2> QED
    BY <2>2, <2>3 DEF Moved, Waited
<1> QED
  BY <1>3, <1>4


\* A statement that ends the transaction, or the session.
LEMMA EndingMoves ==
  ASSUME SessionInv, NEW r \in Request, NEW c \in Conn \cup {NoConn}, c = req[r].conn,
         NEW me \in Session, NEW s \in {"commit", "save", "seed", "close"}, NextIs(r, s),
         req' = [req EXCEPT ![r] = me], \A d \in Conn \ {c} : conn'[d] = conn[d],
         me.todo = Tail(req[r].todo), me.scope = "none",
         s # "close" => (req[r].saved => me.saved),
         s \in {"save", "seed"} => me.saved,
         Marks(s, req[r].unsaved, req[r].owes, me.unsaved, me.owes),
         me.hidden = "otherwise" => req[r].hidden = "otherwise"
  PROVE  Moved(r)
<1>1. Undisturbed(r) /\ req'[r] = me
  BY Frees
<1>2. req[r].todo # <<>> /\ Head(req[r].todo) = s
  BY DEF NextIs
<1>3. req[r].scope # "none" /\ s \notin Ends => me.saved
  BY Named
<1>4. Proceeded(r)
  BY <1>1, <1>2, <1>3 DEF Proceeded
<1> QED
  BY <1>1, <1>4 DEF Moved

LEMMA CommitMoves ==
  ASSUME SessionInv, NEW r \in Request, CommitTransaction(r)
  PROVE  Moved(r)
<1> DEFINE c == req[r].conn
           rel == Released(req[r])
<1>1. req[r] \in Session /\ conn \in [Conn -> Settings]
  BY DEF SessionInv, TypeInv
<1>2. PICK s \in {"commit", "save"} :
        /\ NextIs(r, s) /\ req[r].conn # NoConn
        /\ req' = [req EXCEPT ![r] =
             [Released(req[r]) EXCEPT
                !.todo = Tail(req[r].todo),
                !.saved = (req[r].saved \/ s = "save"),
                !.owes = IF req[r].unsaved = "nothing" THEN req[r].owes
                         ELSE req[r].unsaved = "change"]]
        /\ conn' = [conn EXCEPT ![req[r].conn] = Clean]
  BY DEF CommitTransaction
<1>3. Tail(req[r].todo) \in Seq(STRING)
  BY <1>2, Rest
<1>4. PICK saved \in BOOLEAN : saved = (req[r].saved \/ s = "save")
  OBVIOUS
<1>5. PICK owes \in BOOLEAN :
        owes = IF req[r].unsaved = "nothing" THEN req[r].owes ELSE req[r].unsaved = "change"
  BY <1>1 DEF Session
<1> DEFINE me == [rel EXCEPT !.todo = Tail(req[r].todo), !.saved = saved, !.owes = owes]
<1>6. /\ rel \in Session /\ rel.scope = "none" /\ rel.unsaved = "nothing"
      /\ rel.hidden = req[r].hidden
  BY <1>1, ReleasedIs, ReleasedMarks
<1>7. req' = [req EXCEPT ![r] = me]
  BY <1>2, <1>4, <1>5
<1> HIDE DEF rel
<1>8. /\ me \in Session /\ me.todo = Tail(req[r].todo) /\ me.scope = "none" /\ me.unsaved = "nothing"
      /\ me.hidden = req[r].hidden /\ me.saved = saved /\ me.owes = owes
  BY <1>3, <1>6 DEF Session
<1> HIDE DEF me
<1>9. owes => (req[r].unsaved = "nothing" /\ req[r].owes) \/ req[r].unsaved = "change"
  BY <1>5
<1>10. Marks(s, req[r].unsaved, req[r].owes, me.unsaved, me.owes)
  BY <1>8, <1>9, Zenon DEF Marks
<1>11. /\ c \in Conn \cup {NoConn} /\ c = req[r].conn
       /\ \A d \in Conn \ {c} : conn'[d] = conn[d]
  BY <1>1, <1>2 DEF Session
<1> HIDE DEF c
<1>12. /\ s # "close" => (req[r].saved => me.saved)
       /\ s \in {"save", "seed"} => me.saved
  BY <1>2, <1>4, <1>8
<1>13. s \in {"commit", "save", "seed", "close"} /\ NextIs(r, s)
  BY <1>2
<1>14. me.hidden = "otherwise" => req[r].hidden = "otherwise"
  BY <1>8
<1> QED
  BY <1>7, <1>8, <1>10, <1>11, <1>12, <1>13, <1>14, EndingMoves

LEMMA SeedCommitMoves ==
  ASSUME SessionInv, NEW r \in Request, SeedCommit(r)
  PROVE  Moved(r)
<1> DEFINE c == req[r].conn
<1>1. req[r] \in Session /\ conn \in [Conn -> Settings]
  BY DEF SessionInv, TypeInv
<1>2. NextIs(r, "seed") /\ c \in Conn \cup {NoConn} /\ c = req[r].conn
  BY <1>1 DEF SeedCommit, Session
<1>3. CASE catalog
  BY <1>2, <1>3, CutMovesPlain DEF SeedCommit
<1>4. CASE ~catalog
  <2> DEFINE rel == Released(req[r])
             me == [rel EXCEPT !.todo = Tail(req[r].todo), !.saved = TRUE]
  <2>1. Tail(req[r].todo) \in Seq(STRING)
    BY <1>2, Rest
  <2>2. /\ rel \in Session /\ rel.scope = "none" /\ rel.unsaved = "nothing"
        /\ rel.hidden = req[r].hidden /\ rel.owes = req[r].owes
    BY <1>1, ReleasedIs, ReleasedMarks
  <2>3. req' = [req EXCEPT ![r] = me] /\ conn' = [conn EXCEPT ![c] = Clean]
    BY <1>4 DEF SeedCommit
  <2> HIDE DEF rel
  <2>4. /\ me \in Session /\ me.todo = Tail(req[r].todo) /\ me.scope = "none" /\ me.unsaved = "nothing"
        /\ me.hidden = req[r].hidden /\ me.saved = TRUE /\ me.owes = req[r].owes
    BY <2>1, <2>2 DEF Session
  <2> HIDE DEF me
  <2>5. Marks("seed", req[r].unsaved, req[r].owes, me.unsaved, me.owes)
    BY <2>4 DEF Marks
  <2>6. \A d \in Conn \ {c} : conn'[d] = conn[d]
    BY <1>1, <2>3
  <2> HIDE DEF c
  <2> QED
    BY <1>2, <2>3, <2>4, <2>5, <2>6, EndingMoves
<1> QED
  BY <1>3, <1>4

LEMMA CloseMoves ==
  ASSUME SessionInv, NEW r \in Request, CloseSession(r)
  PROVE  Moved(r)
<1> DEFINE c == req[r].conn
           rel == Released(req[r])
           left == [rel EXCEPT !.todo = Tail(req[r].todo), !.saved = FALSE, !.hidden = "never"]
           me == Settled(left)
<1>1. req[r] \in Session
  BY DEF SessionInv, TypeInv
<1>2. NextIs(r, "close") /\ c \in Conn \cup {NoConn} /\ c = req[r].conn /\ GiveBack(c)
  BY <1>1 DEF CloseSession, Session
<1>3. Tail(req[r].todo) \in Seq(STRING)
  BY <1>2, Rest
<1>4. /\ rel \in Session /\ rel.scope = "none" /\ rel.unsaved = "nothing" /\ rel.owes = req[r].owes
  BY <1>1, ReleasedIs, ReleasedMarks
<1>5. req' = [req EXCEPT ![r] = me]
  BY DEF CloseSession
<1> HIDE DEF rel
<1>6. /\ left \in Session /\ left.todo = Tail(req[r].todo) /\ left.scope = "none"
      /\ left.unsaved = "nothing" /\ left.owes = req[r].owes /\ left.hidden = "never"
  BY <1>3, <1>4 DEF Session
<1> HIDE DEF left
<1>7. /\ me \in Session /\ me.todo = Tail(req[r].todo) /\ me.scope = "none"
      /\ me.unsaved = "nothing" /\ me.owes = req[r].owes /\ me.hidden = "never"
  <2>1. CASE left.todo = <<>>
    <3>1. PICK owes \in BOOLEAN : owes = left.owes
      BY <1>6 DEF Session
    <3>2. me = [Idle EXCEPT !.owes = owes]
      BY <2>1, <3>1 DEF Settled
    <3> DEFINE done == [Idle EXCEPT !.owes = owes]
    <3>3. /\ done \in Session /\ done.todo = Idle.todo /\ done.scope = Idle.scope
          /\ done.unsaved = Idle.unsaved /\ done.owes = owes /\ done.hidden = Idle.hidden
      BY IdleIs DEF Session
    <3> HIDE DEF done
    <3>4. me = done
      BY <3>2 DEF done
    <3> QED
      BY <1>6, <2>1, <3>1, <3>3, <3>4, IdleIs, IdleMarks
  <2>2. CASE left.todo # <<>>
    BY <1>6, <2>2 DEF Settled
  <2> QED
    BY <2>1, <2>2
<1> HIDE DEF me
<1>8. Marks("close", req[r].unsaved, req[r].owes, me.unsaved, me.owes)
  BY <1>7 DEF Marks
<1>9. \A d \in Conn \ {c} : conn'[d] = conn[d]
  BY <1>2, GivenBack DEF SessionInv
<1> HIDE DEF c
<1> QED
  BY <1>2, <1>5, <1>7, <1>8, <1>9, EndingMoves

LEMMA EarlyMoves ==
  ASSUME SessionInv, NEW r \in Request, ReturnEarly(r)
  PROVE  Moved(r)
<1> DEFINE c == req[r].conn
<1>1. c \in Conn \cup {NoConn} /\ c = req[r].conn
  BY DEF SessionInv, TypeInv, Session
<1>2. req' = [req EXCEPT ![r] = Cut] /\ GiveBack(c)
  BY DEF ReturnEarly
<1> HIDE DEF c
<1> QED
  BY <1>1, <1>2, CutMovesPlain

LEMMA BeginMoves ==
  ASSUME SessionInv, NEW r \in Request, NEW t \in Tenant, NEW todo \in Handlers, Begin(r, t, todo)
  PROVE  Moved(r)
<1> DEFINE me == Incoming(t, todo)
<1>1. todo \in Seq(STRING)
  BY ScriptsClose DEF Handlers
<1>2. {} \in SUBSET (Scope \X Tenant)
  OBVIOUS
<1>3. /\ me \in Session /\ me.todo = todo /\ me.scope = "none" /\ me.saved = FALSE
      /\ me.unsaved = "nothing" /\ me.owes = FALSE /\ me.hidden = "never"
  BY <1>1, <1>2 DEF Incoming, Session, Scope
<1>4. req[r].conn = NoConn
  BY DEF SessionInv, Scoped, Begin
<1>5. req' = [req EXCEPT ![r] = me] /\ conn' = conn
  BY DEF Begin
<1> HIDE DEF me
<1>6. Undisturbed(r) /\ req'[r] = me
  BY <1>3, <1>4, <1>5, Frees
<1> QED
  BY <1>3, <1>6 DEF Moved, Started

\* Every step moves one request.
LEMMA StepsMove ==
  ASSUME SessionInv, Bypassed, Next
  PROVE  \E r \in Request : Moved(r)
<1>1. PICK r \in Request :
        \/ \E t \in tenants, todo \in Scripts \cup Operations : Begin(r, t, todo)
        \/ \E t \in Tenant : Begin(r, t, Registration)
        \/ Step(r)
        \/ ReturnEarly(r)
  BY DEF Next
<1>2. tenants \subseteq Tenant
  BY DEF SessionInv, TypeInv
<1>3. CASE \E t \in tenants, todo \in Scripts \cup Operations : Begin(r, t, todo)
  BY <1>2, <1>3, BeginMoves DEF Handlers
<1>4. CASE \E t \in Tenant : Begin(r, t, Registration)
  BY <1>4, BeginMoves DEF Handlers
<1>5. CASE ReturnEarly(r)
  BY <1>5, EarlyMoves
<1>6. CASE Step(r)
  <2>1. \/ CommitTransaction(r) \/ SeedCommit(r) \/ CloseSession(r)
        \/ \E c \in Conn :
             \/ SetTenantContext(r, c) \/ SetPlatformContext(r, c)
             \/ SelectSome(r, c) \/ TouchRow(r, c) \/ TouchShared(r, c)
             \/ LookUpSlug(r, c) \/ ClaimSlug(r, c) \/ SeedRead(r, c)
    BY <1>6 DEF Step
  <2> QED
    BY <2>1, CommitMoves, SeedCommitMoves, CloseMoves, ContextMoves, SelectMoves, TouchMoves,
       SharedMoves, SlugMoves, SeedReadMoves
<1> QED
  BY <1>1, <1>3, <1>4, <1>5, <1>6


LEMMA BypassedStays ==
  ASSUME SessionInv, Bypassed, NEW r \in Request, Moved(r)
  PROVE  Bypassed'
<1> SUFFICES ASSUME NEW q \in Request, req'[q].scope = "all"
             PROVE  req'[q].conn # NoConn /\ conn'[req'[q].conn].bypass
  BY DEF Bypassed
<1>1. CASE q = r
  BY <1>1 DEF Moved, Undisturbed
<1>2. CASE q # r
  <2>1. /\ req'[q] = req[q]
        /\ req[q].conn # NoConn => conn'[req[q].conn] = conn[req[q].conn]
    BY <1>2 DEF Moved, Undisturbed
  <2>2. req[q].conn # NoConn /\ conn[req[q].conn].bypass
    BY <2>1 DEF Bypassed
  <2> QED
    BY <2>1, <2>2
<1> QED
  BY <1>1, <1>2

\* The rest of r keeps to SessionRules.
InContext(r) == InScope(req[r].todo, req[r].scope # "none", req[r].saved)

LEMMA NothingUnseen ==
  ASSUME SessionInv, Bypassed, NEW r \in Request, InContext(r)
  PROVE  ~Unseen(r)
<1> SUFFICES ASSUME Unseen(r) PROVE FALSE
  OBVIOUS
<1>1. /\ req[r] \in Session /\ Scoped(req[r], conn, leaks) /\ conn \in [Conn -> Settings]
  BY DEF SessionInv, TypeInv
<1>2. /\ req[r].todo # <<>> /\ Head(req[r].todo) \in Looks /\ ~req[r].saved
  BY DEF Unseen
<1>3. PICK c \in Conn : On(r, c) /\ req[r].tenant \notin Visible(c)
  BY DEF Unseen
<1>4. req[r].tenant \in Tenant /\ req[r].todo \in Seq(STRING)
  BY <1>1, <1>2 DEF Scoped, Session
<1>5. 1 \in 1..Len(req[r].todo) /\ req[r].todo[1] \in Looks
  BY <1>2, <1>4, TailIs
<1>6. req[r].scope # "none"
  BY <1>2, <1>5 DEF InContext, InScope
<1>7. CASE req[r].scope = "own"
  <2>1. conn[c] = [tenant |-> req[r].tenant, bypass |-> FALSE]
    BY <1>3, <1>7, Working
  <2> QED
    BY <1>3, <1>4, <2>1 DEF Visible
<1>8. CASE req[r].scope = "all"
  <2>1. req[r].conn # NoConn /\ conn[req[r].conn].bypass
    BY <1>8 DEF Bypassed
  <2>2. req[r].conn = c
    BY <1>3, <2>1 DEF On
  <2> QED
    BY <1>3, <1>4, <2>1, <2>2 DEF Visible
<1> QED
  BY <1>1, <1>6, <1>7, <1>8 DEF Session, Scope

LEMMA InContextGoesOn ==
  ASSUME SessionInv, SessionInv', KeepsContext(Handlers), NEW r \in Request, InContext(r), Moved(r)
  PROVE  InScope(req'[r].todo, req'[r].scope # "none", req'[r].saved)
<1>1. req[r] \in Session /\ req'[r] \in Session
  BY DEF SessionInv, TypeInv
<1>2. CASE Started(r)
  <2>1. InScope(req'[r].todo, FALSE, FALSE)
    BY <1>2 DEF Started, KeepsContext
  <2>2. req'[r].scope = "none" /\ req'[r].saved = FALSE
    BY <1>2 DEF Started
  <2> QED
    BY <2>1, <2>2 DEF InScope
<1>3. CASE Stopped(r)
  <2>1. req'[r].todo = <<>> /\ 1..Len(<<>>) = {}
    BY <1>3 DEF Stopped
  <2> QED
    BY <2>1 DEF InScope
<1>4. CASE Waited(r)
  BY <1>4 DEF Waited, InContext
<1>5. CASE Proceeded(r)
  <2>1. PICK scoped, scoped2, saved, saved2 \in BOOLEAN :
          /\ scoped = (req[r].scope # "none") /\ saved = req[r].saved
          /\ scoped2 = (req'[r].scope # "none") /\ saved2 = req'[r].saved
    BY <1>1, Zenon DEF Session
  <2>2. InScope(req[r].todo, scoped, saved)
    BY <2>1 DEF InContext
  <2>3. req[r].todo \in Seq(STRING) /\ req[r].todo # <<>> /\ req'[r].todo = Tail(req[r].todo)
    BY <1>1, <1>5 DEF Proceeded, Session
  <2>4. /\ scoped /\ Head(req[r].todo) \notin Ends => scoped2 \/ saved2
        /\ saved /\ Head(req[r].todo) # "close" => saved2
        /\ Head(req[r].todo) \in {"context", "bypass"} => scoped2
        /\ Head(req[r].todo) = "save" => saved2
    BY <1>5, <2>1 DEF Proceeded
  <2>5. InScope(Tail(req[r].todo), scoped2, saved2)
    BY <2>2, <2>3, <2>4, InScopeGoesOn
  <2> QED
    BY <2>1, <2>3, <2>5
<1> QED
  BY <1>2, <1>3, <1>4, <1>5 DEF Moved

ContextInv ==
  /\ Bypassed
  /\ \A r \in Request : InContext(r)
  /\ HiddenOnlyAfterSave

(***************************************************************************)
(* If the statements of every endpoint come in the order SessionRules asks *)
(* for, then, whatever requests overlap and whatever settings a connection *)
(* comes back with, a row of its own tenant is hidden from a request only  *)
(* after a service function has committed in its session.                  *)
(***************************************************************************)
THEOREM ContextHolds == KeepsContext(Handlers) => (Spec => []HiddenOnlyAfterSave)
<1> SUFFICES ASSUME KeepsContext(Handlers) PROVE Spec => []HiddenOnlyAfterSave
  OBVIOUS
<1>1. Init => ContextInv
  <2> SUFFICES ASSUME Init PROVE ContextInv
    OBVIOUS
  <2>1. \A r \in Request : req[r] = Idle
    BY DEF Init
  <2>2. 1..Len(<<>>) = {}
    OBVIOUS
  <2>3. \A r \in Request : InContext(r)
    BY <2>1, <2>2, IdleIs DEF InContext, InScope
  <2> QED
    BY <2>1, <2>3, IdleIs, IdleMarks DEF ContextInv, Bypassed, HiddenOnlyAfterSave
<1>2. SessionInv /\ SessionInv' /\ ContextInv /\ [Next]_vars => ContextInv'
  <2> SUFFICES ASSUME SessionInv, SessionInv', ContextInv, [Next]_vars PROVE ContextInv'
    OBVIOUS
  <2>1. CASE UNCHANGED vars
    BY <2>1 DEF vars, ContextInv, Bypassed, InContext, HiddenOnlyAfterSave
  <2>2. CASE Next
    <3>1. PICK r \in Request : Moved(r)
      BY <2>2, StepsMove DEF ContextInv
    <3>2. \A q \in Request : q # r => req'[q] = req[q]
      BY <3>1 DEF Moved, Undisturbed
    <3>3. Bypassed'
      BY <3>1, BypassedStays DEF ContextInv
    <3>4. \A q \in Request : InScope(req'[q].todo, req'[q].scope # "none", req'[q].saved)
      <4>1. InScope(req'[r].todo, req'[r].scope # "none", req'[r].saved)
        BY <3>1, InContextGoesOn DEF ContextInv
      <4>2. \A q \in Request : q # r => InScope(req'[q].todo, req'[q].scope # "none", req'[q].saved)
        BY <3>2 DEF ContextInv, InContext
      <4> QED
        BY <4>1, <4>2
    <3>5. HiddenOnlyAfterSave'
      <4>1. ~Unseen(r)
        BY NothingUnseen DEF ContextInv
      <4>2. req'[r].hidden # "otherwise"
        BY <3>1, <4>1 DEF Moved, ContextInv, HiddenOnlyAfterSave
      <4> QED
        BY <3>2, <4>2 DEF ContextInv, HiddenOnlyAfterSave
    <3> QED
      BY <3>3, <3>4, <3>5 DEF ContextInv, InContext
  <2> QED
    BY <2>1, <2>2
<1>3. ContextInv => HiddenOnlyAfterSave
  BY DEF ContextInv
<1> QED
  BY <1>1, <1>2, <1>3, SessionsSound, PTL DEF Spec

--------------------------------------------------------------------------------
(* What has been changed is recorded *)

RecordInv == \A r \in Request : Settles(req[r].todo, req[r].unsaved, req[r].owes)

LEMMA SettledGoesOn ==
  ASSUME SessionInv, SessionInv', KeepsRecords(Handlers), NEW r \in Request, Moved(r),
         Settles(req[r].todo, req[r].unsaved, req[r].owes)
  PROVE  Settles(req'[r].todo, req'[r].unsaved, req'[r].owes)
<1>1. req[r] \in Session /\ req'[r] \in Session
  BY DEF SessionInv, TypeInv
<1>2. CASE Started(r)
  BY <1>2 DEF Started, KeepsRecords
<1>3. CASE Stopped(r)
  <2>1. 1..Len(<<>>) = {}
    OBVIOUS
  <2> QED
    BY <1>3, <2>1 DEF Stopped, Settles
<1>4. CASE Waited(r)
  BY <1>4 DEF Waited
<1>5. CASE Proceeded(r)
  <2>1. PICK owes, owes2 \in BOOLEAN : owes = req[r].owes /\ owes2 = req'[r].owes
    BY <1>1 DEF Session
  <2>2. req[r].todo \in Seq(STRING) /\ req[r].todo # <<>> /\ req'[r].todo = Tail(req[r].todo)
    BY <1>1, <1>5 DEF Proceeded, Session
  <2>3. Marks(Head(req[r].todo), req[r].unsaved, owes, req'[r].unsaved, owes2)
    BY <1>5, <2>1 DEF Proceeded
  <2>4. Settles(Tail(req[r].todo), req'[r].unsaved, owes2)
    BY <2>1, <2>2, <2>3, SettlesGoesOn
  <2> QED
    BY <2>1, <2>2, <2>4
<1> QED
  BY <1>2, <1>3, <1>4, <1>5 DEF Moved

\* With nothing left to do nothing is owed.
LEMMA NothingOwed ==
  ASSUME NEW u, NEW owes \in BOOLEAN, Settles(<<>>, u, owes)
  PROVE  ~owes
<1>1. \A k \in Nat : (k + 1)..Len(<<>>) = {}
  OBVIOUS
<1>2. (0 + 1)..Len(<<>>) = {}
  OBVIOUS
<1>3. ~Entered(<<>>, 0) /\ ~Sealed(<<>>, 0)
  BY <1>2 DEF Entered, Sealed
<1> QED
  BY <1>3 DEF Settles

(***************************************************************************)
(* If every change an endpoint makes has its audit entry made and          *)
(* committed after it, before anything else is, then no request that runs  *)
(* to its end leaves a change it committed unrecorded, wherever others     *)
(* come in between.                                                        *)
(***************************************************************************)
THEOREM ChangesRecorded == KeepsRecords(Handlers) => (Spec => []ChangesAudited)
<1> SUFFICES ASSUME KeepsRecords(Handlers) PROVE Spec => []ChangesAudited
  OBVIOUS
<1>1. Init => RecordInv /\ Bypassed
  <2> SUFFICES ASSUME Init PROVE RecordInv /\ Bypassed
    OBVIOUS
  <2>1. \A r \in Request : req[r] = Idle
    BY DEF Init
  <2>2. 1..Len(<<>>) = {}
    OBVIOUS
  <2> QED
    BY <2>1, <2>2, IdleIs, IdleMarks DEF RecordInv, Settles, Bypassed
<1>2. SessionInv /\ SessionInv' /\ RecordInv /\ Bypassed /\ [Next]_vars => (RecordInv /\ Bypassed)'
  <2> SUFFICES ASSUME SessionInv, SessionInv', RecordInv, Bypassed, [Next]_vars
               PROVE  RecordInv' /\ Bypassed'
    OBVIOUS
  <2>1. CASE UNCHANGED vars
    BY <2>1 DEF vars, RecordInv, Bypassed
  <2>2. CASE Next
    <3>1. PICK r \in Request : Moved(r)
      BY <2>2, StepsMove
    <3>2. \A q \in Request : q # r => req'[q] = req[q]
      BY <3>1 DEF Moved, Undisturbed
    <3>3. Settles(req'[r].todo, req'[r].unsaved, req'[r].owes)
      BY <3>1, SettledGoesOn DEF RecordInv
    <3>4. RecordInv'
      BY <3>2, <3>3 DEF RecordInv
    <3> QED
      BY <3>1, <3>4, BypassedStays
  <2> QED
    BY <2>1, <2>2
<1>3. SessionInv /\ RecordInv => ChangesAudited
  <2> SUFFICES ASSUME SessionInv, RecordInv, NEW r \in Request, req[r].todo = <<>>
               PROVE  ~req[r].owes
    BY DEF ChangesAudited
  <2>1. req[r].owes \in BOOLEAN
    BY DEF SessionInv, TypeInv, Session
  <2> QED
    BY <2>1, NothingOwed DEF RecordInv
<1> QED
  BY <1>1, <1>2, <1>3, SessionsSound, PTL DEF Spec
================================================================================
