-------------------------- MODULE LogServiceProofs --------------------------
(* A serial server writes its events to all its targets in one order.       *)
EXTENDS LogService, TLAPS

ServiceTypeOK ==
  /\ targets \in [Loggers -> Seq(Appenders)]
  /\ handling \in [Loggers -> SUBSET Events]
  /\ pos \in [Loggers -> Nat]
  /\ out \in [Appenders -> Seq([ev: Events, by: Loggers])]

\* Once a target has written the event its logger is handling, that logger
\* writes nothing else to it.
Latest ==
  \A l \in Loggers : \A e \in handling[l] :
    \A a \in Appenders : \A i, j \in DOMAIN out[a] :
      i < j /\ out[a][i] = Entry(l, e) /\ out[a][j].by = l
        => out[a][j] = Entry(l, e)

ServiceInv == ServiceTypeOK /\ Latest /\ ServiceOrder

\* What an appended sequence holds at each place.
LEMMA AppendedEntry ==
  ASSUME NEW S, NEW s \in Seq(S), NEW e \in S
  PROVE  /\ Append(s, e) \in Seq(S)
         /\ DOMAIN Append(s, e) = 1..(Len(s) + 1)
         /\ DOMAIN s = 1..Len(s)
         /\ Len(s) \in Nat
         /\ \A i \in 1..Len(s) : Append(s, e)[i] = s[i]
         /\ Append(s, e)[Len(s) + 1] = e
  OBVIOUS

LEMMA ServiceStart == ServiceInit => ServiceInv
  <1> SUFFICES ASSUME ServiceInit PROVE ServiceInv
    OBVIOUS
  <1>1. ServiceTypeOK
    BY DEF ServiceInit, ServiceTypeOK
  <1>2. Latest
    BY DEF ServiceInit, Latest
  <1>3. ServiceOrder
    BY DEF ServiceInit, ServiceOrder
  <1> QED
    BY <1>1, <1>2, <1>3 DEF ServiceInv

\* Every step keeps the types.
LEMMA ServiceTypes ==
  ServiceTypeOK /\ [ServiceNext]_serviceVars => ServiceTypeOK'
  <1> SUFFICES ASSUME ServiceTypeOK, [ServiceNext]_serviceVars
               PROVE  ServiceTypeOK'
    OBVIOUS
  <1> USE DEF ServiceTypeOK
  <1>1. ASSUME NEW l \in Loggers, NEW e \in Events, Begin(l, e)
        PROVE  ServiceTypeOK'
    BY <1>1 DEF Begin
  <1>2. ASSUME NEW l \in Loggers, NEW e \in Events, Offer(l, e)
        PROVE  ServiceTypeOK'
    <2> DEFINE a == targets[l][pos[l]]
    <2>1. a \in Appenders /\ Entry(l, e) \in [ev: Events, by: Loggers]
      BY <1>2 DEF Offer, Entry
    <2>2. Append(out[a], Entry(l, e)) \in Seq([ev: Events, by: Loggers])
      BY <2>1, AppendedEntry
    <2>3. out' \in [Appenders -> Seq([ev: Events, by: Loggers])]
      BY <1>2, <2>1, <2>2 DEF Offer
    <2>4. pos' \in [Loggers -> Nat]
      BY <1>2 DEF Offer
    <2>5. UNCHANGED <<targets, handling>>
      BY <1>2 DEF Offer
    <2> QED
      BY <2>3, <2>4, <2>5
  <1>3. ASSUME NEW l \in Loggers, End(l) PROVE ServiceTypeOK'
    BY <1>3 DEF End
  <1>4. ASSUME NEW l \in Loggers, Clear(l) PROVE ServiceTypeOK'
    <2>1. << >> \in Seq(Appenders)
      OBVIOUS
    <2>2. targets' \in [Loggers -> Seq(Appenders)]
      BY <1>4, <2>1 DEF Clear
    <2> QED
      BY <1>4, <2>2 DEF Clear
  <1>5. ASSUME NEW l \in Loggers, NEW a \in Appenders, Attach(l, a)
        PROVE  ServiceTypeOK'
    <2>1. Append(targets[l], a) \in Seq(Appenders)
      BY AppendedEntry
    <2>2. targets' \in [Loggers -> Seq(Appenders)]
      BY <1>5, <2>1 DEF Attach
    <2> QED
      BY <1>5, <2>2 DEF Attach
  <1>6. CASE UNCHANGED serviceVars
    BY <1>6 DEF serviceVars
  <1> QED
    BY <1>1, <1>2, <1>3, <1>4, <1>5, <1>6 DEF ServiceNext

\* A step that writes nothing and takes no event keeps both facts.
LEMMA Untouched ==
  ASSUME ServiceInv, out' = out,
         \A l \in Loggers : handling'[l] \subseteq handling[l]
  PROVE  Latest' /\ ServiceOrder'
  BY DEF ServiceInv, Latest, ServiceOrder, Entry

\* The event a logger takes is nowhere yet as written by it.
LEMMA BeginOrder ==
  ASSUME ServiceInv, NEW l \in Loggers, NEW e \in Events, Begin(l, e)
  PROVE  Latest' /\ ServiceOrder'
  <1>1. Latest'
    <2> SUFFICES ASSUME NEW k \in Loggers, NEW f \in handling'[k],
                        NEW a \in Appenders,
                        NEW i \in DOMAIN out[a], NEW j \in DOMAIN out[a],
                        i < j, out[a][i] = Entry(k, f), out[a][j].by = k
                 PROVE  out[a][j] = Entry(k, f)
      BY DEF Begin, Latest, Entry
    <2>1. CASE k = l
      <3>1. f = e
        BY <2>1 DEF Begin, ServiceInv, ServiceTypeOK
      <3> QED
        BY <2>1, <3>1 DEF Begin, Written
    <2>2. CASE k # l
      BY <2>2 DEF Begin, ServiceInv, Latest, ServiceTypeOK
    <2> QED
      BY <2>1, <2>2
  <1>2. ServiceOrder'
    BY DEF Begin, ServiceInv, ServiceOrder
  <1> QED
    BY <1>1, <1>2

\* An entry added to one target comes after everything its logger wrote, and
\* no target has another entry of that logger after an equal one.
LEMMA OfferOrder ==
  ASSUME ServiceInv, NEW l \in Loggers, NEW e \in Events, Offer(l, e),
         NEW a \in Appenders,
         out' = [out EXCEPT ![a] = Append(@, Entry(l, e))]
  PROVE  Latest' /\ ServiceOrder'
  <1> DEFINE g == Entry(l, e)
             n == Len(out[a]) + 1
             T == [ev: Events, by: Loggers]
  <1>1. g \in T /\ g.by = l /\ g.ev = e
    BY DEF Entry
  <1>2. \A b \in Appenders : out[b] \in Seq(T)
    BY DEF ServiceInv, ServiceTypeOK
  <1>3. /\ DOMAIN out'[a] = 1..n /\ n \in Nat
        /\ DOMAIN out[a] = 1..(n - 1)
        /\ \A i \in 1..(n - 1) : out'[a][i] = out[a][i]
        /\ out'[a][n] = g
    <2>1. out'[a] = Append(out[a], g)
      BY DEF ServiceInv, ServiceTypeOK
    <2> HIDE DEF g, T
    <2> QED
      BY <1>1, <1>2, <2>1, AppendedEntry
  <1>4. \A b \in Appenders : b # a => out'[b] = out[b]
    BY DEF ServiceInv, ServiceTypeOK
  <1>5. /\ handling' = handling
        /\ handling[l] = {e}
    BY DEF Offer
  <1>6. \A b \in Appenders : \A i, j \in DOMAIN out[b] :
          i < j /\ out[b][i] = g /\ out[b][j].by = l => out[b][j] = g
    BY <1>5 DEF ServiceInv, Latest
  \* Old places keep their entries; the only new place is n of a.
  <1>7. \A b \in Appenders : \A i \in DOMAIN out'[b] :
          \/ i \in DOMAIN out[b] /\ out'[b][i] = out[b][i]
          \/ b = a /\ i = n /\ out'[b][i] = g
    <2> HIDE DEF g, n
    <2> QED
      BY <1>3, <1>4
  <1>8. \A b \in Appenders : DOMAIN out'[b] \subseteq Nat
                             /\ DOMAIN out[b] \subseteq Nat
    <2>1. \A b \in Appenders : DOMAIN out[b] = 1..Len(out[b])
      BY <1>2
    <2> HIDE DEF g, n
    <2> QED
      BY <2>1, <1>3, <1>4
  <1>9. \A i \in DOMAIN out'[a] : i <= n
    BY <1>3
  <1>10. Latest'
    <2> SUFFICES ASSUME NEW k \in Loggers, NEW f \in handling[k],
                        NEW b \in Appenders,
                        NEW i \in DOMAIN out'[b], NEW j \in DOMAIN out'[b],
                        i < j, out'[b][i] = Entry(k, f), out'[b][j].by = k
                 PROVE  out'[b][j] = Entry(k, f)
      BY <1>5 DEF Latest, Entry
    <2>1. CASE j \in DOMAIN out[b] /\ out'[b][j] = out[b][j]
      <3>1. i \in DOMAIN out[b] /\ out'[b][i] = out[b][i]
        <4> HIDE DEF g, n
        <4> QED
          BY <2>1, <1>3, <1>7, <1>8
      <3> HIDE DEF g, n
      <3>2. /\ i \in DOMAIN out[b] /\ j \in DOMAIN out[b]
            /\ out[b][i] = Entry(k, f) /\ out[b][j].by = k
        BY <2>1, <3>1
      <3>3. out[b][j] = Entry(k, f)
        BY <3>2 DEF ServiceInv, Latest
      <3> QED
        BY <2>1, <3>3
    <2>2. CASE b = a /\ j = n /\ out'[b][j] = g
      <3>1. k = l /\ f = e
        BY <2>2, <1>1, <1>5
      <3> QED
        BY <2>2, <3>1
    <2> QED
      BY <2>1, <2>2, <1>7
  <1>11. ServiceOrder'
    <2> SUFFICES ASSUME NEW b \in Appenders, NEW c \in Appenders
                 PROVE  \A i, j \in DOMAIN out'[b] :
                   i < j /\ out'[b][i].by = out'[b][j].by
                         /\ out'[b][i] # out'[b][j] =>
                     ~ \E k, m \in DOMAIN out'[c] :
                         k < m /\ out'[c][k] = out'[b][j]
                               /\ out'[c][m] = out'[b][i]
      BY DEF ServiceOrder
    <2> TAKE i, j \in DOMAIN out'[b]
    <2> HAVE i < j /\ out'[b][i].by = out'[b][j].by
                   /\ out'[b][i] # out'[b][j]
    <2> SUFFICES ASSUME NEW k \in DOMAIN out'[c], NEW m \in DOMAIN out'[c],
                        k < m, out'[c][k] = out'[b][j],
                        out'[c][m] = out'[b][i]
                 PROVE  FALSE
      OBVIOUS
    <2> HIDE DEF g, n
    <2>1. i \in DOMAIN out[b] /\ out'[b][i] = out[b][i]
      BY <1>3, <1>7, <1>8, <1>9
    <2>2. k \in DOMAIN out[c] /\ out'[c][k] = out[c][k]
      BY <1>3, <1>7, <1>8, <1>9
    <2>3. CASE out'[b][j] = g /\ j \notin DOMAIN out[b]
      <3>1. out'[c][m] # g
        BY <2>3
      <3>2. m \in DOMAIN out[c] /\ out'[c][m] = out[c][m]
        BY <3>1, <1>7
      <3> QED
        BY <2>2, <2>3, <3>2, <1>1, <1>6
    <2>4. CASE j \in DOMAIN out[b] /\ out'[b][j] = out[b][j]
      <3>1. CASE m \in DOMAIN out[c] /\ out'[c][m] = out[c][m]
        BY <2>1, <2>2, <2>4, <3>1 DEF ServiceInv, ServiceOrder
      <3>2. CASE out'[c][m] = g
        BY <2>1, <2>4, <3>2, <1>1, <1>6
      <3> QED
        BY <3>1, <3>2, <1>7
    <2> QED
      BY <2>3, <2>4, <1>7
  <1> QED
    BY <1>10, <1>11

\* A serial server of every logger keeps all targets in one order.
THEOREM ServiceOrdered == Spec => []ServiceOrder
  <1>1. ServiceInv /\ [ServiceNext]_serviceVars => ServiceInv'
    <2> SUFFICES ASSUME ServiceInv, [ServiceNext]_serviceVars
                 PROVE  ServiceInv'
      OBVIOUS
    <2>1. ServiceTypeOK'
      BY ServiceTypes DEF ServiceInv
    <2>2. ASSUME NEW l \in Loggers, NEW e \in Events, Begin(l, e)
          PROVE  Latest' /\ ServiceOrder'
      BY <2>2, BeginOrder
    <2>3. ASSUME NEW l \in Loggers, NEW e \in Events, Offer(l, e)
          PROVE  Latest' /\ ServiceOrder'
      <3>1. CASE out' = out
        BY <2>3, <3>1, Untouched DEF Offer
      <3>2. CASE out' # out
        <4>1. targets[l][pos[l]] \in Appenders
          BY <2>3 DEF Offer, ServiceInv, ServiceTypeOK
        <4> QED
          BY <2>3, <3>2, <4>1, OfferOrder DEF Offer
      <3> QED
        BY <3>1, <3>2
    <2>4. ASSUME NEW l \in Loggers, End(l)
          PROVE  Latest' /\ ServiceOrder'
      <3>1. out' = out /\ \A k \in Loggers : handling'[k] \subseteq handling[k]
        BY <2>4 DEF End, ServiceInv, ServiceTypeOK
      <3> QED
        BY <3>1, Untouched
    <2>5. ASSUME NEW l \in Loggers, Clear(l)
          PROVE  Latest' /\ ServiceOrder'
      BY <2>5, Untouched DEF Clear
    <2>6. ASSUME NEW l \in Loggers, NEW a \in Appenders, Attach(l, a)
          PROVE  Latest' /\ ServiceOrder'
      BY <2>6, Untouched DEF Attach
    <2>7. CASE UNCHANGED serviceVars
      <3>1. out' = out /\ handling' = handling
        BY <2>7 DEF serviceVars
      <3>2. \A l \in Loggers : handling'[l] \subseteq handling[l]
        BY <3>1
      <3> QED
        BY <2>1, <3>1, <3>2, Untouched DEF ServiceInv
    <2> QED
      BY <2>1, <2>2, <2>3, <2>4, <2>5, <2>6, <2>7
      DEF ServiceNext, ServiceInv
  <1>2. ServiceInv => ServiceOrder
    BY DEF ServiceInv
  <1> QED
    BY <1>1, <1>2, ServiceStart, PTL DEF Spec
=============================================================================
