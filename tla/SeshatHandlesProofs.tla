------------------------- MODULE SeshatHandlesProofs ------------------------
(***************************************************************************)
(* Proof of HandlesInv, by one lemma per step of a call, of the client and *)
(* of the garbage collector, and of the two properties that rest on it.    *)
(***************************************************************************)
EXTENDS SeshatHandles, FiniteSetTheorems, TLAPS

(* Every method of the Kotlin classes is sound: Sound of what the combinators *)
(* of native functions build, and of the five methods that consume a box.     *)

LEMMA MethodsSound ==
    ASSUME NEW m \in Methods
    PROVE  m \in MethodTypes /\ MethodSound(m)
<1> DEFINE FunctionTypes ==
        [on : Kinds \cup {None}, also : SUBSET {"Config", "Data"}, moves : BOOLEAN,
         fails : {"never", "panics", "answers"}, gives : SUBSET Results,
         tells : {"return", "callback"}]
<1> DEFINE Good(kinds) == kinds \subseteq Results /\ ("Lost" \in kinds => kinds = {"Lost"})
<1> DEFINE Answering(f) == f \in FunctionTypes /\ ~f.moves /\ f.tells = "return" /\ Good(f.gives)
<1> DEFINE Plain(f) == Answering(f) /\ f.gives = {None}
<1> DEFINE Sound(f) ==
        f \in FunctionTypes /\ ~f.moves /\ Good(f.gives) /\ (f.tells = "callback" => f.gives = {None})
<1>1. ASSUME NEW f, Sound(f), NEW keeps \in BOOLEAN
      PROVE  Method(f, "never", keeps) \in MethodTypes /\ MethodSound(Method(f, "never", keeps))
  BY <1>1 DEF Method, MethodTypes, MethodSound
<1>2. \A on \in Kinds \cup {None} : Plain(Native(on))
  BY DEF Native, Results, Kinds, None
<1>3. \A f : Answering(f) =>
         /\ Answering(Unwraps(f)) /\ Answering(Answers(f))
         /\ \A kind \in {"Config", "Data"} : Answering(Takes(f, kind))
         /\ \A kinds : Good(kinds) => Answering(Gives(f, kinds))
         /\ Sound(f)
  BY DEF Unwraps, Answers, Takes, Gives
<1>4. \A f : Plain(f) =>
         /\ \A kind \in {"Config", "Data"} : Plain(Takes(f, kind))
         /\ Sound(CallsBack(f))
         /\ Answering(f)
  BY DEF CallsBack, Unwraps, Takes
<1>5. \A kinds : (kinds \subseteq Results /\ "Lost" \notin kinds) => Good(kinds)
  OBVIOUS
<1>6. /\ Good({"Database"}) /\ Good({"Config"}) /\ Good({"Recovery"}) /\ Good({"Data"}) /\ Good({"Lost"})
      /\ Good({None, "Borrowed"}) /\ Good({None, "Data"})
  BY DEF Results, Kinds, None
<1>7. {"Database", "Recovery", "Data", None} \subseteq Kinds \cup {None}
  BY DEF Kinds
<1> HIDE DEF FunctionTypes, Good, Answering, Plain, Sound
<1>8. \A f \in {n_add_event, n_get_size, n_is_empty, n_set_user_version,
            n_load_file_events, n_get_user_version, n_delete_event, n_commit_sync} : Sound(f)
  BY <1>2, <1>3, <1>4, <1>5, <1>6, <1>7 DEF n_add_event, n_get_size, n_is_empty,
         n_set_user_version, n_load_file_events, n_get_user_version, n_delete_event,
         n_commit_sync
<1>9. \A f \in {n_commit_no_wait, n_is_room_indexed, n_add_historic_events,
            n_load_checkpoints, n_force_commit, n_reload, n_search, n_get_database_stats} : Sound(f)
  BY <1>2, <1>3, <1>4, <1>5, <1>6, <1>7 DEF n_commit_no_wait, n_is_room_indexed,
         n_add_historic_events, n_load_checkpoints, n_force_commit, n_reload, n_search,
         n_get_database_stats
<1>10. \A f \in {n_get_event, n_get_checkpoint, n_recovery_info_get, n_database_stats_get,
            n_search_batch_get, n_search_batch_get_results, n_search_result_get,
            n_search_result_get_profile_info} : Sound(f)
  BY <1>2, <1>3, <1>4, <1>5, <1>6, <1>7 DEF n_get_event, n_get_checkpoint,
         n_recovery_info_get, n_database_stats_get, n_search_batch_get,
         n_search_batch_get_results, n_search_result_get, n_search_result_get_profile_info
<1>11. \A f \in {n_new_database, n_new_database_with_config, n_new_database_config,
            n_new_recovery_database, n_get_info, n_get_recovery_user_version} : Sound(f)
  BY <1>2, <1>3, <1>4, <1>5, <1>6, <1>7 DEF n_new_database, n_new_database_with_config,
         n_new_database_config, n_new_recovery_database, n_get_info,
         n_get_recovery_user_version
<1>12. \A f \in {n_new_event, n_event_from_json, n_new_checkpoint, n_new_profile,
            n_new_search_config, n_search_config_set_next_batch} : Sound(f)
  BY <1>2, <1>3, <1>4, <1>5, <1>6, <1>7 DEF n_new_event, n_event_from_json,
         n_new_checkpoint, n_new_profile, n_new_search_config,
         n_search_config_set_next_batch
<1>13. Sound(Gives(n_new_search_config, {"Lost"}))
  BY <1>2, <1>3, <1>4, <1>6, <1>7 DEF n_new_search_config
<1>14. \A f : Plain(f) /\ f.on \in {"Database", "Recovery"} =>
          \A marks \in {"before", "after"}, g \in {Unwraps(Moves(f)), CallsBack(Moves(f))} :
             Method(g, marks, TRUE) \in MethodTypes /\ MethodSound(Method(g, marks, TRUE))
  <2> SUFFICES ASSUME NEW f, Plain(f), f.on \in {"Database", "Recovery"},
                      NEW marks \in {"before", "after"},
                      NEW g \in {Unwraps(Moves(f)), CallsBack(Moves(f))}
               PROVE  Method(g, marks, TRUE) \in MethodTypes /\ MethodSound(Method(g, marks, TRUE))
    OBVIOUS
  <2> DEFINE h == Moves(f)
  <2>1. h \in FunctionTypes /\ h.moves /\ h.gives = {None} /\ h.on \in {"Database", "Recovery"}
    BY DEF Moves, FunctionTypes, Plain, Answering
  <2>2. g \in {Unwraps(h), CallsBack(h)}
    OBVIOUS
  <2> HIDE DEF h
  <2>3. /\ Unwraps(h) \in FunctionTypes /\ Unwraps(h).moves /\ Unwraps(h).gives = {None}
        /\ Unwraps(h).on \in {"Database", "Recovery"} /\ Unwraps(h).fails = "panics"
    BY <2>1 DEF Unwraps, FunctionTypes
  <2>4. /\ CallsBack(h) \in FunctionTypes /\ CallsBack(h).moves /\ CallsBack(h).gives = {None}
        /\ CallsBack(h).on \in {"Database", "Recovery"} /\ CallsBack(h).fails = "panics"
    BY <2>3 DEF CallsBack, FunctionTypes
  <2>5. /\ g \in FunctionTypes /\ g.moves /\ g.gives = {None}
        /\ g.on \in {"Database", "Recovery"} /\ g.fails = "panics"
    BY <2>2, <2>3, <2>4
  <2> QED
    BY <2>5 DEF Method, MethodTypes, MethodSound, FunctionTypes, None
<1>15. /\ Plain(Native("Database")) /\ Native("Database").on = "Database"
       /\ Plain(Native("Recovery")) /\ Native("Recovery").on = "Recovery"
  BY <1>2, <1>7 DEF Native
<1>16. \A f \in {n_change_passphrase, n_delete, n_shutdown, n_shutdown_recovery, n_reindex},
         marks \in {"before", "after"} :
         Method(f, marks, TRUE) \in MethodTypes /\ MethodSound(Method(f, marks, TRUE))
  BY <1>14, <1>15
     DEF n_change_passphrase, n_delete, n_shutdown, n_shutdown_recovery, n_reindex
<1> QED
  BY <1>1, <1>8, <1>9, <1>10, <1>11, <1>12, <1>13, <1>16, Zenon
     DEF Methods, Instance, Static, ChangePassphrase, Delete, Shutdown, ShutdownRecovery, Reindex,
         SearchConfigWithKeys

-----------------------------------------------------------------------------
LEMMA BeginKeeps ==
    ASSUME HandlesInv, NEW t \in Threads, NEW m \in Methods, NEW self \in Receivers(m),
           NEW args \in Arguments(m), Begin(t, m, self, args)
    PROVE  HandlesInv'
<1> USE ObjectsAssumption
<1> DEFINE c == [phase |-> "entered", method |-> m, self |-> self, args |-> args, given |-> None]
<1>1. /\ call' = [call EXCEPT ![t] = c] /\ ~Active(t)
      /\ closed' = IF m.marks = "before" THEN closed \cup {self} ELSE closed
      /\ kindOf' = kindOf /\ box' = box /\ held' = held /\ finalized' = finalized /\ byHand' = byHand
      /\ aborted' = aborted
  BY DEF Begin
<1>2. m \in MethodTypes /\ MethodSound(m)
  BY MethodsSound
<1>3. /\ args \subseteq held /\ held \subseteq Objects
      /\ \A o \in args : kindOf[o] \in m.also
  BY DEF HandlesInv, TypeOK, Arguments
<1>4. /\ self \notin closed
      /\ IF m.on = None THEN self = None
         ELSE self \in held /\ self \in Objects /\ kindOf[self] = m.on
      /\ self \in Databases => ~Busy(self)
  BY <1>3 DEF Receivers, Begin, Open
<1>5. c \in ActiveCalls
  BY <1>2, <1>3, <1>4 DEF ActiveCalls
<1>6. /\ call \in [Threads -> {Idle} \cup ActiveCalls]
      /\ call' \in [Threads -> {Idle} \cup ActiveCalls]
      /\ call'[t] = c
      /\ \A u \in Threads : u # t => call'[u] = call[u]
  BY <1>1, <1>5 DEF HandlesInv
<1>7. /\ c.phase = "entered" /\ c.method = m /\ c.self = self /\ c.args = args /\ c.given = None
  OBVIOUS
<1> HIDE DEF c
<1>8. closed \subseteq closed' /\ closed' \subseteq closed \cup {self}
      /\ (self \in closed' => m.moves /\ m.marks = "before")
  BY <1>1, <1>2, <1>4 DEF MethodSound
<1>9. TypeOK'
  BY <1>1, <1>2, <1>4, <1>6, <1>7, <1>8 DEF HandlesInv, TypeOK, Active, Databases, MethodSound, None
<1>10. CallsSound'
  <2> SUFFICES ASSUME NEW u \in Threads, Active(u)'
               PROVE  CallSound(call[u])'
    BY DEF CallsSound
  <2>1. CASE u = t
    <3>1. CallSound(c)'
      BY <1>1, <1>2, <1>3, <1>4, <1>7, <1>8 DEF CallSound, GivenSound, MethodSound
    <3> QED
      BY <2>1, <3>1, <1>6 DEF CallSound, GivenSound
  <2>2. CASE u # t
    <3>1. CallSound(call[u]) /\ call'[u] = call[u] /\ Active(u)
      BY <2>2, <1>6 DEF Active, HandlesInv, CallsSound
    <3>2. self \in closed' => self \in Objects /\ self \in Databases
      BY <1>2, <1>4, <1>8 DEF MethodSound, Databases, None
    <3>3. call[u].phase = "entered" => (call[u].self # self \/ self \notin closed')
      BY <3>2, <1>4 DEF Busy, Running
    <3>4. call[u].phase = "entered" /\ call[u].self \in closed'
          => call[u].method.moves \/ ~call[u].method.keeps
      BY <3>1, <3>3, <1>8 DEF CallSound
    <3> QED
      BY <3>1, <3>4, <1>1, <1>8 DEF CallSound, GivenSound
  <2> QED
    BY <2>1, <2>2
<1>11. CallsApart'
  BY <1>1, <1>4, <1>6, <1>7 DEF CallsApart, HandlesInv, Running, Active, Databases, Busy
<1>12. BoxesSound'
  <2> SUFFICES ASSUME NEW o \in Objects
               PROVE  /\ box[o] = None => kindOf[o] = None
                      /\ o \in finalized => kindOf[o] # None
                      /\ Owns(o)' /\ ~Consumed(o)' => box[o] \in {"alive", "borrowed"}
                      /\ box[o] = "alive" /\ kindOf[o] # "Config" /\ ~Owns(o)'
                         => \E u \in Threads : Carries(u, o)'
    BY <1>1 DEF BoxesSound
  <2>1. /\ box[o] = None => kindOf[o] = None
        /\ o \in finalized => kindOf[o] # None
        /\ Owns(o) /\ ~Consumed(o) => box[o] \in {"alive", "borrowed"}
        /\ box[o] = "alive" /\ kindOf[o] # "Config" /\ ~Owns(o)
           => \E u \in Threads : Carries(u, o)
    BY DEF HandlesInv, BoxesSound
  <2>2. Owns(o)' => Owns(o)
    BY <1>1, <1>8 DEF Owns
  <2>3. Consumed(o) => Consumed(o)'
    BY <1>1, <1>6 DEF Consumed, Active
  <2>4. ASSUME NEW u \in Threads, Carries(u, o)
        PROVE  Carries(u, o)'
    BY <2>4, <1>1, <1>6, <1>8 DEF Carries, Running, Active
  <2>5. Owns(o) /\ ~Owns(o)' => Carries(t, o)'
    BY <1>1, <1>6, <1>7, <1>8 DEF Owns, Carries
  <2> QED
    BY <2>1, <2>2, <2>3, <2>4, <2>5
<1>13. NoUseAfterFree'
  <2>1. ASSUME NEW o \in (({self} \ {None}) \cup args) \ byHand
        PROVE  box[o] \in {"alive", "borrowed"}
    <3>1. o \in held /\ o \in Objects /\ o \notin closed
      BY <1>2, <1>3, <1>4 DEF HandlesInv, TypeOK, Databases, MethodTypes
    <3>2. Owns(o)
      BY <3>1 DEF Owns, HandlesInv, TypeOK
    <3>3. ~Consumed(o)
      <4> SUFFICES ASSUME NEW u \in Threads, call[u].phase = "worked", call[u].self = o,
                          call[u].method.moves
                   PROVE  FALSE
        BY DEF Consumed
      <4>1. CallSound(call[u]) /\ Running(u)
        BY DEF HandlesInv, CallsSound, Active, Running
      <4>2. o \in Databases
        BY <4>1, <3>1 DEF CallSound, MethodSound, Databases, None
      <4>3. o = self
        BY <4>2, <1>2, <1>3 DEF Databases, MethodTypes
      <4> QED
        BY <4>1, <4>2, <4>3, <1>4 DEF Busy
    <3> QED
      BY <3>1, <3>2, <3>3 DEF HandlesInv, BoxesSound
  <2> QED
    BY <2>1, <1>1, <1>6, <1>7 DEF NoUseAfterFree, Kept, HandlesInv
<1> QED
  BY <1>6, <1>9, <1>10, <1>11, <1>12, <1>13 DEF HandlesInv

LEMMA WorkKeeps ==
    ASSUME HandlesInv, NEW t \in Threads, NEW given \in Objects \cup {None}, NEW kind \in Results,
           Work(t, given, kind)
    PROVE  HandlesInv'
<1> USE ObjectsAssumption
<1> PICK c : c = call[t]
  OBVIOUS
<1> PICK d : d = call'[t]
  OBVIOUS
<1> DEFINE m == c.method
<1> DEFINE new == CASE kind = "Borrowed" -> "borrowed"
                    [] kind = "Lost" -> "lost"
                    [] OTHER -> "alive"
<1>1. /\ c.phase = "entered" /\ kind \in m.gives
      /\ IF kind = None THEN given = None ELSE given \in Objects /\ box[given] = None
      /\ box' = [o \in Objects |->
                   IF o = given THEN new
                   ELSE IF m.moves /\ o = c.self THEN Freed(box[o]) ELSE box[o]]
      /\ call' = [call EXCEPT ![t].phase = "worked", ![t].given = given,
                              ![t].method.gives = {kind}]
      /\ kindOf' = kindOf /\ held' = held /\ closed' = closed /\ finalized' = finalized
      /\ byHand' = byHand /\ aborted' = aborted
  BY DEF Work
<1>2. c \in ActiveCalls /\ CallSound(c) /\ Running(t) /\ Active(t)
  BY <1>1 DEF HandlesInv, CallsSound, Active, Running, Idle
<1>3. /\ d \in ActiveCalls
      /\ d.phase = "worked" /\ d.given = given /\ d.self = c.self /\ d.args = c.args
      /\ d.method = [m EXCEPT !.gives = {kind}]
  BY <1>1, <1>2 DEF HandlesInv, ActiveCalls, MethodTypes
<1>4. /\ call' \in [Threads -> {Idle} \cup ActiveCalls]
      /\ \A u \in Threads : u # t => call'[u] = call[u]
  BY <1>1, <1>3 DEF HandlesInv
<1>5. /\ d.method.gives = {kind} /\ d.method.on = m.on /\ d.method.also = m.also
      /\ d.method.moves = m.moves /\ d.method.fails = m.fails /\ d.method.tells = m.tells
      /\ d.method.marks = m.marks /\ d.method.keeps = m.keeps
  BY <1>2, <1>3 DEF ActiveCalls, MethodTypes
<1>6. MethodSound(d.method)
  <2>1. MethodSound(m)
    BY <1>2 DEF CallSound
  <2>2. m.tells = "callback" => kind = None
    BY <2>1, <1>1 DEF MethodSound
  <2> QED
    BY <2>1, <2>2, <1>5 DEF MethodSound
<1>7. new \in {"alive", "borrowed", "lost"} /\ (new = "lost" <=> kind = "Lost")
  OBVIOUS
<1> HIDE DEF m, new
<1>8. m.moves => /\ c.self \in Objects /\ kindOf[c.self] \in {"Database", "Recovery"}
                 /\ box[c.self] \in {"alive", "borrowed"} /\ c.self # given
  <2>1. m.moves => /\ m.keeps /\ c.self \in Objects
                   /\ kindOf[c.self] \in {"Database", "Recovery"} /\ c.self # None
    BY <1>2 DEF CallSound, MethodSound, None, m
  <2>2. m.moves => c.self \in Kept(c) \ byHand
    BY <2>1 DEF Kept, m, HandlesInv, TypeOK
  <2> QED
    BY <1>1, <1>2, <2>1, <2>2 DEF HandlesInv, NoUseAfterFree, None
<1>9. m.moves => box'[c.self] \in {"freed", "borrowed"}
  BY <1>1, <1>8 DEF Freed
<1>10. given # None => /\ given \in Objects /\ box[given] = None /\ kindOf[given] = None
                       /\ box'[given] = new
  BY <1>1 DEF HandlesInv, BoxesSound
<1>11. \A o \in Objects : o = given \/ (m.moves /\ o = c.self) \/ box'[o] = box[o]
  BY <1>1
<1>12. TypeOK'
  <2>1. box' \in [Objects -> {None, "alive", "borrowed", "lost", "freed", "corrupt"}]
    BY <1>1, <1>7 DEF Freed, HandlesInv, TypeOK
  <2>2. \A u \in Threads : Active(u)' => call'[u].self \in Objects \cup {None}
    BY <1>4 DEF Active, ActiveCalls, Idle
  <2> QED
    BY <1>1, <2>1, <2>2 DEF HandlesInv, TypeOK, Databases
<1>13. CallsSound'
  <2> SUFFICES ASSUME NEW u \in Threads, Active(u)'
               PROVE  CallSound(call[u])'
    BY DEF CallsSound
  <2>1. CASE u = t
    <3>1. GivenSound(d)'
      BY <1>1, <1>3, <1>5, <1>7, <1>10 DEF GivenSound, None
    <3>2. /\ d.phase = "worked"
          /\ MethodSound(d.method)
          /\ \E k \in Results : d.method.gives = {k}
          /\ d.method.moves => box'[d.self] # "alive"
      BY <1>3, <1>5, <1>6, <1>9
    <3>3. /\ IF d.method.on = None THEN d.self = None
             ELSE d.self \in Objects /\ kindOf[d.self] = d.method.on
          /\ d.args \subseteq held
          /\ \A o \in d.args : kindOf[o] \in d.method.also
          /\ d.method.moves /\ d.method.marks = "before" => d.self \in closed
      BY <1>1, <1>2, <1>3, <1>5 DEF CallSound, m
    <3>4. CallSound(d)'
      BY <3>1, <3>2, <3>3, <1>1 DEF CallSound
    <3> QED
      BY <2>1, <3>4 DEF CallSound, GivenSound
  <2>2. CASE u # t
    <3> PICK e : e = call[u]
      OBVIOUS
    <3>1. CallSound(e) /\ call'[u] = e /\ Active(u) /\ e \in ActiveCalls
      BY <2>2, <1>4 DEF Active, HandlesInv, CallsSound, Idle
    <3>2. e.given # None => box'[e.given] = box[e.given]
      BY <3>1, <1>8, <1>10, <1>11 DEF CallSound, GivenSound, ActiveCalls, None, HandlesInv, TypeOK
    <3>3. e.phase # "entered" /\ e.method.moves => box'[e.self] # "alive"
      BY <3>1, <1>9, <1>10, <1>11 DEF CallSound, MethodSound, None
    <3>4. GivenSound(e)'
      BY <3>1, <3>2, <1>1 DEF GivenSound, CallSound
    <3>5. CallSound(e)'
      BY <3>1, <3>3, <3>4, <1>1 DEF CallSound
    <3> QED
      BY <3>1, <3>5 DEF CallSound, GivenSound
  <2> QED
    BY <2>1, <2>2
<1>14. CallsApart'
  <2>1. ASSUME NEW u \in Threads, u # t, Active(u), call[u].given # None
        PROVE  call[u].given # given
    BY <2>1, <1>10 DEF HandlesInv, CallsSound, CallSound, GivenSound, None
  <2>2. \A u \in Threads : /\ Running(u)' <=> Running(u)
                           /\ Active(u)' <=> Active(u)
                           /\ call'[u].self = call[u].self
                           /\ u # t => call'[u].given = call[u].given
    BY <1>1, <1>2, <1>3, <1>4 DEF Running, Active
  <2>3. \A u, v \in Threads :
           Running(u) /\ Running(v) /\ call[u].self = call[v].self /\ call[u].self \in Databases
           => u = v
    BY DEF HandlesInv, CallsApart
  <2>4. \A u, v \in Threads :
           Active(u) /\ Active(v) /\ call[u].given = call[v].given /\ call[u].given # None => u = v
    BY DEF HandlesInv, CallsApart
  <2>5. Databases' = Databases
    BY <1>1 DEF Databases
  <2>6. \A u, v \in Threads :
           Active(u)' /\ Active(v)' /\ call'[u].given = call'[v].given /\ call'[u].given # None
           => u = v
    BY <2>1, <2>2, <2>4, <1>3
  <2> QED
    BY <2>2, <2>3, <2>5, <2>6 DEF CallsApart
<1>15. BoxesSound'
  <2> SUFFICES ASSUME NEW o \in Objects
               PROVE  /\ box'[o] = None => kindOf[o] = None
                      /\ o \in finalized => kindOf[o] # None
                      /\ Owns(o) /\ ~Consumed(o)' => box'[o] \in {"alive", "borrowed"}
                      /\ box'[o] = "alive" /\ kindOf[o] # "Config" /\ ~Owns(o)
                         => \E u \in Threads : Carries(u, o)'
    BY <1>1 DEF BoxesSound, Owns
  <2>1. /\ box[o] = None => kindOf[o] = None
        /\ o \in finalized => kindOf[o] # None
        /\ Owns(o) /\ ~Consumed(o) => box[o] \in {"alive", "borrowed"}
        /\ box[o] = "alive" /\ kindOf[o] # "Config" /\ ~Owns(o)
           => \E u \in Threads : Carries(u, o)
    BY DEF HandlesInv, BoxesSound
  <2>2. Consumed(o) => Consumed(o)'
    BY <1>1, <1>4 DEF Consumed
  <2>3. CASE o = given
    <3>1. given # None /\ Carries(t, o)'
      BY <2>3, <1>3 DEF Carries, Running, None
    <3> QED
      BY <2>3, <3>1, <2>1, <1>7, <1>10 DEF Owns, None
  <2>4. CASE m.moves /\ o = c.self
    <3>1. Consumed(o)'
      BY <2>4, <1>3, <1>5 DEF Consumed
    <3> QED
      BY <2>4, <3>1, <2>1, <1>8, <1>9 DEF None
  <2>5. CASE o # given /\ ~(m.moves /\ o = c.self)
    <3>1. box'[o] = box[o]
      BY <2>5, <1>11
    <3>2. ASSUME NEW u \in Threads, Carries(u, o)
          PROVE  Carries(u, o)'
      <4>1. CASE u = t
        <5>1. c.given = None
          BY <1>1, <1>2 DEF CallSound, GivenSound
        <5> QED
          BY <3>2, <4>1, <5>1, <1>1, <1>2, <2>5 DEF Carries, CallSound, None, m
      <4>2. CASE u # t
        BY <3>2, <4>2, <1>1, <1>4 DEF Carries, Running
      <4> QED
        BY <4>1, <4>2
    <3> QED
      BY <3>1, <3>2, <2>1, <2>2
  <2> QED
    BY <2>3, <2>4, <2>5
<1>16. NoUseAfterFree'
  <2>1. \A o \in Objects \ byHand' : box'[o] # "corrupt"
    BY <1>1, <1>7, <1>9, <1>10, <1>11 DEF HandlesInv, NoUseAfterFree, None
  <2>2. ASSUME NEW u \in Threads, call'[u].phase = "entered",
               NEW o \in Kept(call[u])' \ byHand'
        PROVE  box'[o] \in {"alive", "borrowed"}
    <3> PICK e : e = call[u]
      OBVIOUS
    <3>1. u # t /\ call'[u] = e
      BY <2>2, <1>3, <1>4
    <3>2. CallSound(e) /\ Running(u) /\ e \in ActiveCalls
      BY <3>1, <2>2 DEF HandlesInv, CallsSound, Active, Running, Idle
    <3>3. o \in Objects /\ box[o] \in {"alive", "borrowed"}
      BY <3>1, <3>2, <2>2, <1>1 DEF HandlesInv, NoUseAfterFree, Kept, ActiveCalls
    <3>4. ~(m.moves /\ o = c.self)
      <4>1. CASE o = e.self
        BY <4>1, <3>1, <3>2, <1>2, <1>8 DEF HandlesInv, CallsApart, Databases
      <4>2. CASE o \in e.args
        BY <4>2, <3>2, <1>8 DEF CallSound, Running, ActiveCalls, MethodTypes
      <4> QED
        BY <4>1, <4>2, <3>1, <2>2 DEF Kept
    <3>5. o # given
      BY <3>3, <1>10 DEF None
    <3> QED
      BY <3>3, <3>4, <3>5, <1>11
  <2> QED
    BY <2>1, <2>2 DEF NoUseAfterFree
<1> QED
  BY <1>4, <1>12, <1>13, <1>14, <1>15, <1>16 DEF HandlesInv

LEMMA StutterKeeps ==
    ASSUME HandlesInv, UNCHANGED <<kindOf, box, held, closed, finalized, byHand, call>>,
           aborted' \in BOOLEAN
    PROVE  HandlesInv'
<1>1. TypeOK'
  BY DEF HandlesInv, TypeOK, Active, Databases
<1>2. CallsSound'
  BY DEF HandlesInv, CallsSound, CallSound, GivenSound, Active
<1>3. CallsApart'
  BY DEF HandlesInv, CallsApart, Running, Active, Databases
<1>4. BoxesSound'
  BY DEF HandlesInv, BoxesSound, Owns, Consumed, Carries, Running
<1>5. NoUseAfterFree'
  BY DEF HandlesInv, NoUseAfterFree, Kept
<1> QED
  BY <1>1, <1>2, <1>3, <1>4, <1>5 DEF HandlesInv

LEMMA FailKeeps ==
    ASSUME HandlesInv, NEW t \in Threads, Fail(t)
    PROVE  HandlesInv'
<1> USE ObjectsAssumption
<1> PICK c : c = call[t]
  OBVIOUS
<1> PICK d : d = call'[t]
  OBVIOUS
<1>1. /\ c.phase = "entered"
      /\ kindOf' = kindOf /\ box' = box /\ held' = held /\ closed' = closed /\ finalized' = finalized
      /\ byHand' = byHand
  BY DEF Fail
<1>2. CASE aborted' = TRUE /\ call' = call
  BY <1>1, <1>2, StutterKeeps
<1>3. CASE /\ c.method.fails = "answers"
           /\ call' = [call EXCEPT ![t].phase = "worked", ![t].method.gives = {None}]
           /\ aborted' = aborted
  <2>1. c \in ActiveCalls /\ CallSound(c) /\ Running(t) /\ Active(t)
    BY <1>1 DEF HandlesInv, CallsSound, Active, Running, Idle
  <2>2. /\ d \in ActiveCalls
        /\ d.phase = "worked" /\ d.given = c.given /\ d.self = c.self /\ d.args = c.args
        /\ d.method = [c.method EXCEPT !.gives = {None}]
    BY <1>3, <2>1 DEF HandlesInv, ActiveCalls, MethodTypes, Results
  <2>3. /\ call' \in [Threads -> {Idle} \cup ActiveCalls]
        /\ \A u \in Threads : u # t => call'[u] = call[u]
    BY <1>3, <2>2 DEF HandlesInv
  <2>4. /\ d.method.gives = {None} /\ d.method.on = c.method.on /\ d.method.also = c.method.also
        /\ d.method.moves = c.method.moves /\ d.method.fails = c.method.fails
        /\ d.method.tells = c.method.tells /\ d.method.marks = c.method.marks
        /\ d.method.keeps = c.method.keeps
    BY <2>1, <2>2 DEF ActiveCalls, MethodTypes
  <2>5. ~c.method.moves /\ c.given = None /\ MethodSound(d.method)
    BY <1>1, <1>3, <2>1, <2>4 DEF CallSound, MethodSound, GivenSound, None
  <2>7. TypeOK'
    <3>1. \A u \in Threads : Active(u)' => call'[u].self \in Objects \cup {None}
      BY <2>3 DEF Active, ActiveCalls, Idle
    <3> QED
      BY <1>1, <1>3, <3>1 DEF HandlesInv, TypeOK, Databases
  <2>8. CallsSound'
    <3> SUFFICES ASSUME NEW u \in Threads, Active(u)'
                 PROVE  CallSound(call[u])'
      BY DEF CallsSound
    <3>1. CASE u = t
      <4>1. GivenSound(d)'
        BY <2>2, <2>4, <2>5 DEF GivenSound
      <4>2. CallSound(d)'
        BY <4>1, <1>1, <2>1, <2>2, <2>4, <2>5 DEF CallSound, Results
      <4> QED
        BY <3>1, <4>2 DEF CallSound, GivenSound
    <3>2. CASE u # t
      BY <3>2, <1>1, <2>3 DEF HandlesInv, CallsSound, CallSound, GivenSound, Active
    <3> QED
      BY <3>1, <3>2
  <2>9. CallsApart'
    <3>1. \A u \in Threads : /\ Running(u)' <=> Running(u)
                             /\ Active(u)' <=> Active(u)
                             /\ call'[u].self = call[u].self
                             /\ call'[u].given = call[u].given
      BY <1>1, <2>1, <2>2, <2>3 DEF Running, Active
    <3> QED
      BY <3>1, <1>1 DEF HandlesInv, CallsApart, Databases
  <2>10. BoxesSound'
    <3>1. \A o \in Objects : /\ Owns(o)' <=> Owns(o)
                             /\ Consumed(o) => Consumed(o)'
      BY <1>1, <2>3 DEF Owns, Consumed
    <3>2. ASSUME NEW o \in Objects, NEW u \in Threads, Carries(u, o)
          PROVE  Carries(u, o)'
      BY <3>2, <1>1, <2>2, <2>3, <2>5 DEF Carries, Running, None
    <3> QED
      BY <1>1, <3>1, <3>2 DEF HandlesInv, BoxesSound
  <2>11. NoUseAfterFree'
    BY <1>1, <2>2, <2>3 DEF HandlesInv, NoUseAfterFree, Kept
  <2> QED
    BY <2>3, <2>7, <2>8, <2>9, <2>10, <2>11 DEF HandlesInv
<1> QED
  BY <1>2, <1>3 DEF Fail

LEMMA CallbackKeeps ==
    ASSUME HandlesInv, NEW t \in Threads, Callback(t)
    PROVE  HandlesInv'
<1> USE ObjectsAssumption
<1> PICK c : c = call[t]
  OBVIOUS
<1> PICK d : d = call'[t]
  OBVIOUS
<1>1. /\ c.phase = "worked" /\ c.method.tells = "callback"
      /\ call' = [call EXCEPT ![t].phase = "answered"]
      /\ closed' = IF c.method.marks = "after" THEN closed \cup {c.self} ELSE closed
      /\ kindOf' = kindOf /\ box' = box /\ held' = held /\ finalized' = finalized
      /\ byHand' = byHand /\ aborted' = aborted
  BY DEF Callback
<1>2. c \in ActiveCalls /\ CallSound(c) /\ Running(t) /\ Active(t)
  BY <1>1 DEF HandlesInv, CallsSound, Active, Running, Idle
<1>3. /\ d \in ActiveCalls
      /\ d.phase = "answered" /\ d.given = c.given /\ d.self = c.self /\ d.args = c.args
      /\ d.method = c.method
  BY <1>1, <1>2 DEF HandlesInv, ActiveCalls
<1>4. /\ call' \in [Threads -> {Idle} \cup ActiveCalls]
      /\ \A u \in Threads : u # t => call'[u] = call[u]
  BY <1>1, <1>3 DEF HandlesInv
<1>5. MethodSound(c.method) /\ c.given = None
  BY <1>1, <1>2 DEF CallSound, GivenSound, MethodSound
<1>6. /\ closed \subseteq closed' /\ closed' \subseteq closed \cup {c.self}
      /\ c.method.moves => c.self \in closed'
      /\ c.self \notin closed /\ c.self \in closed' =>
            c.method.moves /\ c.self \in Databases /\ c.self \in Objects
  BY <1>1, <1>2, <1>5 DEF CallSound, MethodSound, ActiveCalls, MethodTypes, Databases, None
<1>7. TypeOK'
  <2>1. \A u \in Threads : Active(u)' => call'[u].self \in Objects \cup {None}
    BY <1>4 DEF Active, ActiveCalls, Idle
  <2> QED
    BY <1>1, <1>6, <2>1 DEF HandlesInv, TypeOK, Databases
<1>8. CallsSound'
  <2> SUFFICES ASSUME NEW u \in Threads, Active(u)'
               PROVE  CallSound(call[u])'
    BY DEF CallsSound
  <2>1. CASE u = t
    <3>1. GivenSound(d)'
      BY <1>2, <1>3, <1>1, <1>5 DEF CallSound, GivenSound
    <3>2. CallSound(d)'
      BY <3>1, <1>1, <1>2, <1>3, <1>5, <1>6 DEF CallSound
    <3> QED
      BY <2>1, <3>2 DEF CallSound, GivenSound
  <2>2. CASE u # t
    <3> PICK e : e = call[u]
      OBVIOUS
    <3>1. CallSound(e) /\ call'[u] = e /\ Active(u)
      BY <2>2, <1>4 DEF Active, HandlesInv, CallsSound
    <3>2. e.phase = "entered" => (e.self # c.self \/ c.self \notin closed' \/ c.self \in closed)
      BY <2>2, <1>2, <1>6 DEF HandlesInv, CallsApart, Running
    <3>3. e.phase = "entered" /\ e.self \in closed' => e.method.moves \/ ~e.method.keeps
      BY <3>1, <3>2, <1>6 DEF CallSound
    <3>4. CallSound(e)'
      BY <3>1, <3>3, <1>1, <1>6 DEF CallSound, GivenSound
    <3> QED
      BY <3>1, <3>4 DEF CallSound, GivenSound
  <2> QED
    BY <2>1, <2>2
<1>9. CallsApart'
  <2>1. \A u \in Threads : /\ Running(u)' => Running(u)
                           /\ Active(u)' <=> Active(u)
                           /\ call'[u].self = call[u].self
                           /\ call'[u].given = call[u].given
    BY <1>1, <1>2, <1>3, <1>4 DEF Running, Active
  <2> QED
    BY <2>1, <1>1 DEF HandlesInv, CallsApart, Databases
<1>10. BoxesSound'
  <2> SUFFICES ASSUME NEW o \in Objects
               PROVE  /\ box[o] = None => kindOf[o] = None
                      /\ o \in finalized => kindOf[o] # None
                      /\ Owns(o)' /\ ~Consumed(o)' => box[o] \in {"alive", "borrowed"}
                      /\ box[o] = "alive" /\ kindOf[o] # "Config" /\ ~Owns(o)'
                         => \E u \in Threads : Carries(u, o)'
    BY <1>1 DEF BoxesSound
  <2>1. /\ box[o] = None => kindOf[o] = None
        /\ o \in finalized => kindOf[o] # None
        /\ Owns(o) /\ ~Consumed(o) => box[o] \in {"alive", "borrowed"}
        /\ box[o] = "alive" /\ kindOf[o] # "Config" /\ ~Owns(o)
           => \E u \in Threads : Carries(u, o)
    BY DEF HandlesInv, BoxesSound
  <2>2. Owns(o)' => Owns(o) /\ (o = c.self => ~c.method.moves)
    BY <1>1, <1>6 DEF Owns
  <2>3. Owns(o)' /\ Consumed(o) => Consumed(o)'
    BY <2>2, <1>1, <1>4 DEF Consumed
  <2>4. ASSUME NEW u \in Threads, Carries(u, o)
        PROVE  Carries(u, o)'
    BY <2>4, <1>1, <1>3, <1>4, <1>5, <1>6 DEF Carries, Running, None
  <2>5. Owns(o) /\ ~Owns(o)' => box[o] # "alive"
    BY <1>1, <1>2, <1>6 DEF Owns, CallSound
  <2> QED
    BY <2>1, <2>2, <2>3, <2>4, <2>5
<1>11. NoUseAfterFree'
  BY <1>1, <1>3, <1>4 DEF HandlesInv, NoUseAfterFree, Kept
<1> QED
  BY <1>4, <1>7, <1>8, <1>9, <1>10, <1>11 DEF HandlesInv

LEMMA ForgetKeeps ==
    ASSUME HandlesInv, NEW o \in Objects, Forget(o)
    PROVE  HandlesInv'
<1>1. /\ kindOf' = kindOf /\ box' = box /\ closed' = closed /\ finalized' = finalized
      /\ byHand' = byHand /\ call' = call /\ aborted' = aborted /\ held' = held \ {o}
      /\ \A t \in Threads : Running(t) => o \notin call[t].args
  BY DEF Forget, Passed
<1>2. TypeOK'
  BY <1>1 DEF HandlesInv, TypeOK, Active, Databases
<1>3. CallsSound'
  <2> SUFFICES ASSUME NEW t \in Threads, Active(t)
               PROVE  CallSound(call[t])'
    BY <1>1 DEF CallsSound, Active
  <2> PICK c : c = call[t]
    OBVIOUS
  <2>1. CallSound(c) /\ (c.phase # "answered" => Running(t)) /\ c \in ActiveCalls
    BY DEF HandlesInv, CallsSound, Running, Active, ActiveCalls, Idle
  <2>2. CallSound(c)'
    BY <2>1, <1>1 DEF CallSound, GivenSound
  <2> QED
    BY <2>2, <1>1 DEF CallSound, GivenSound
<1>4. CallsApart'
  BY <1>1 DEF HandlesInv, CallsApart, Running, Active, Databases
<1>5. BoxesSound'
  BY <1>1 DEF HandlesInv, BoxesSound, Owns, Consumed, Carries, Running
<1>6. NoUseAfterFree'
  BY <1>1 DEF HandlesInv, NoUseAfterFree, Kept
<1> QED
  BY <1>1, <1>2, <1>3, <1>4, <1>5, <1>6 DEF HandlesInv

LEMMA ReturnKeeps ==
    ASSUME HandlesInv, NEW t \in Threads, Return(t)
    PROVE  HandlesInv'
<1> USE ObjectsAssumption
<1> PICK c : c = call[t]
  OBVIOUS
<1> DEFINE given == c.given
<1> DEFINE new == given # None /\ "Lost" \notin c.method.gives
<1>1. /\ Active(t) /\ c.phase \in {"worked", "answered"}
      /\ c.phase = "worked" => c.method.tells # "callback"
      /\ call' = [call EXCEPT ![t] = Idle]
      /\ IF new THEN \E kind \in c.method.gives : /\ kindOf' = [kindOf EXCEPT ![given] = Wrapped(kind)]
                                                  /\ held' = held \cup {given}
         ELSE kindOf' = kindOf /\ held' = held
      /\ closed' = IF c.method.tells = "return" /\ c.method.marks = "after"
                   THEN closed \cup {c.self} ELSE closed
      /\ box' = box /\ finalized' = finalized /\ byHand' = byHand
      /\ aborted' = aborted
  BY DEF Return
<1>2. c \in ActiveCalls /\ CallSound(c) /\ MethodSound(c.method) /\ GivenSound(c)
  BY <1>1 DEF HandlesInv, CallsSound, CallSound, Active, Idle
<1>3. /\ call' \in [Threads -> {Idle} \cup ActiveCalls]
      /\ ~Active(t)'
      /\ call'[t] = Idle
      /\ \A u \in Threads : u # t => call'[u] = call[u]
  BY <1>1 DEF HandlesInv, Active, Idle
<1>4. new => /\ given \in Objects /\ kindOf[given] = None /\ box[given] \in {"alive", "borrowed"}
             /\ kindOf'[given] \in Kinds
             /\ held' = held \cup {given}
             /\ \A o \in Objects : o # given => kindOf'[o] = kindOf[o]
             /\ kindOf' \in [Objects -> Kinds \cup {None}]
  <2> SUFFICES ASSUME new
               PROVE  /\ given \in Objects /\ kindOf[given] = None
                      /\ box[given] \in {"alive", "borrowed"}
                      /\ kindOf'[given] \in Kinds
                      /\ held' = held \cup {given}
                      /\ \A o \in Objects : o # given => kindOf'[o] = kindOf[o]
                      /\ kindOf' \in [Objects -> Kinds \cup {None}]
    OBVIOUS
  <2>1. given \in Objects /\ kindOf[given] = None /\ box[given] \in {"alive", "borrowed"}
    BY <1>2 DEF ActiveCalls, GivenSound
  <2>2. PICK kind \in c.method.gives : /\ kindOf' = [kindOf EXCEPT ![given] = Wrapped(kind)]
                                       /\ held' = held \cup {given}
    BY <1>1
  <2>3. Wrapped(kind) \in Kinds
    BY <1>1, <1>2, <2>2 DEF CallSound, GivenSound, Results, Wrapped, Kinds
  <2> QED
    BY <2>1, <2>2, <2>3 DEF HandlesInv, TypeOK
<1>5. ~new => kindOf' = kindOf /\ held' = held
  BY <1>1
<1>6. \A o \in Objects : kindOf[o] # None => kindOf'[o] = kindOf[o]
  BY <1>4, <1>5
<1>7. /\ closed \subseteq closed' /\ closed' \subseteq closed \cup {c.self}
      /\ c.method.moves => c.self \in closed'
      /\ c.self \notin closed /\ c.self \in closed' =>
            c.method.moves /\ c.self \in Databases /\ c.self \in Objects /\ Running(t)
  BY <1>1, <1>2 DEF CallSound, MethodSound, ActiveCalls, MethodTypes, Databases, None, Running
<1>8. /\ held \subseteq held' /\ held' \subseteq held \cup {given}
      /\ held \subseteq {o \in Objects : kindOf[o] # None}
      /\ Databases \subseteq Databases' /\ Databases' \subseteq Databases \cup {given}
  BY <1>4, <1>5 DEF Databases, HandlesInv, TypeOK, None
<1> HIDE DEF given, new
<1>9. TypeOK'
  <2>1. \A u \in Threads : Active(u)' => call'[u].self \in Objects \cup {None}
    BY <1>3 DEF Active, ActiveCalls, Idle
  <2>2. kindOf' \in [Objects -> Kinds \cup {None}]
    BY <1>4, <1>5 DEF HandlesInv, TypeOK
  <2>3. held' \subseteq {o \in Objects : kindOf'[o] # None}
    BY <1>4, <1>5, <1>6, <1>8 DEF Kinds, None
  <2>4. closed' \subseteq Databases'
    BY <1>7, <1>8 DEF HandlesInv, TypeOK
  <2>5. finalized' \subseteq Objects \ held'
    <3>1. new => given \notin finalized
      BY <1>4 DEF HandlesInv, BoxesSound
    <3> QED
      BY <3>1, <1>1, <1>4, <1>5 DEF HandlesInv, TypeOK
  <2>6. byHand' \subseteq {o \in Objects : kindOf'[o] = "Data"}
    BY <1>1, <1>6 DEF HandlesInv, TypeOK, None
  <2> QED
    BY <1>1, <2>1, <2>2, <2>3, <2>4, <2>5, <2>6 DEF HandlesInv, TypeOK
<1>10. CallsSound'
  <2> SUFFICES ASSUME NEW u \in Threads, Active(u)'
               PROVE  CallSound(call[u])'
    BY DEF CallsSound
  <2> PICK e : e = call[u]
    OBVIOUS
  <2>1. u # t /\ CallSound(e) /\ call'[u] = e /\ Active(u) /\ e \in ActiveCalls
    BY <1>3 DEF Active, HandlesInv, CallsSound, Idle
  <2>2. e.phase = "entered" /\ e.self \in closed' => e.method.moves \/ ~e.method.keeps
    <3>1. e.phase = "entered" => (e.self # c.self \/ c.self \notin closed' \/ c.self \in closed)
      BY <2>1, <1>7 DEF HandlesInv, CallsApart, Running
    <3> QED
      BY <2>1, <3>1, <1>7 DEF CallSound
  <2>3. GivenSound(e)'
    <3>1. GivenSound(e)
      BY <2>1 DEF CallSound
    <3>2. e.given # None => e.given # given \/ ~new
      BY <2>1, <1>1 DEF HandlesInv, CallsApart, given
    <3>3. e.given # None => kindOf'[e.given] = kindOf[e.given]
      BY <2>1, <3>2, <1>4, <1>5 DEF ActiveCalls
    <3> QED
      BY <3>1, <3>3, <1>1 DEF GivenSound
  <2>4. IF e.method.on = None THEN e.self = None
        ELSE e.self \in Objects /\ kindOf'[e.self] = e.method.on
    BY <2>1, <1>6 DEF CallSound
  <2>5. e.phase # "answered" =>
          /\ e.args \subseteq held'
          /\ \A o \in e.args : kindOf'[o] \in e.method.also
    BY <2>1, <1>6, <1>8 DEF CallSound
  <2>6. CallSound(e)'
    BY <2>1, <2>2, <2>3, <2>4, <2>5, <1>1, <1>7 DEF CallSound
  <2> QED
    BY <2>1, <2>6 DEF CallSound, GivenSound
<1>11. CallsApart'
  <2>1. \A u \in Threads : /\ Running(u)' => u # t /\ Running(u)
                           /\ Active(u)' => u # t /\ Active(u)
                           /\ u # t => call'[u] = call[u]
    BY <1>3 DEF Running, Active, Idle
  <2>2. ASSUME NEW u \in Threads, Running(u)', call'[u].self \in Databases'
        PROVE  call[u].self \in Databases
    <3>1. CallSound(call[u])
      BY <2>1, <2>2 DEF HandlesInv, CallsSound, Active, Running
    <3> QED
      BY <2>1, <2>2, <3>1, <1>6 DEF CallSound, Databases, None
  <2> QED
    BY <2>1, <2>2 DEF HandlesInv, CallsApart
<1>12. BoxesSound'
  <2> SUFFICES ASSUME NEW o \in Objects
               PROVE  /\ box[o] = None => kindOf'[o] = None
                      /\ o \in finalized => kindOf'[o] # None
                      /\ Owns(o)' /\ ~Consumed(o)' => box[o] \in {"alive", "borrowed"}
                      /\ box[o] = "alive" /\ kindOf'[o] # "Config" /\ ~Owns(o)'
                         => \E u \in Threads : Carries(u, o)'
    BY <1>1 DEF BoxesSound
  <2>1. /\ box[o] = None => kindOf[o] = None
        /\ o \in finalized => kindOf[o] # None
        /\ Owns(o) /\ ~Consumed(o) => box[o] \in {"alive", "borrowed"}
        /\ box[o] = "alive" /\ kindOf[o] # "Config" /\ ~Owns(o)
           => \E u \in Threads : Carries(u, o)
    BY DEF HandlesInv, BoxesSound
  <2>2. CASE new /\ o = given
    <3>1. o \notin finalized /\ o \notin closed /\ o \notin byHand /\ o # c.self
      BY <2>1, <2>2, <1>2, <1>4 DEF HandlesInv, TypeOK, Databases, CallSound, None
    <3>2. Owns(o)'
      BY <3>1, <2>2, <1>1, <1>4, <1>7 DEF Owns, Kinds, None
    <3> QED
      BY <2>1, <2>2, <3>1, <3>2, <1>4 DEF None, Kinds
  <2>3. CASE ~(new /\ o = given)
    <3>1. kindOf'[o] = kindOf[o]
      BY <2>3, <1>4, <1>5
    <3>2. Owns(o)' => Owns(o) /\ (o = c.self => ~c.method.moves)
      BY <3>1, <1>1, <1>7 DEF Owns
    <3>3. Owns(o)' /\ Consumed(o) => Consumed(o)'
      BY <3>2, <1>3 DEF Consumed
    <3>4. ASSUME NEW u \in Threads, Carries(u, o), box[o] = "alive"
          PROVE  Carries(u, o)'
      <4>1. u # t
        BY <3>4, <2>3, <1>1, <1>2 DEF Carries, GivenSound, new, given, None
      <4> QED
        BY <3>4, <4>1, <1>3, <1>7 DEF Carries, Running
    <3>5. Owns(o) /\ ~Owns(o)' => box[o] # "alive"
      BY <3>1, <1>1, <1>2, <1>7 DEF Owns, CallSound
    <3> QED
      BY <2>1, <3>1, <3>2, <3>3, <3>4, <3>5
  <2> QED
    BY <2>2, <2>3
<1>13. NoUseAfterFree'
  <2> SUFFICES ASSUME NEW u \in Threads, call'[u].phase = "entered",
                      NEW o \in Kept(call[u])' \ byHand'
               PROVE  box[o] \in {"alive", "borrowed"}
    BY <1>1 DEF HandlesInv, NoUseAfterFree
  <2>1. u # t /\ call'[u] = call[u]
    BY <1>3 DEF Idle
  <2>2. CallSound(call[u])
    BY <2>1 DEF HandlesInv, CallsSound, Active
  <2>3. o \in held' => o \in held
    <3>1. o \in call[u].args => o \in held
      BY <2>1, <2>2 DEF CallSound
    <3>2. o = call[u].self /\ o # None => kindOf[o] # None
      BY <2>2, <1>2 DEF CallSound, MethodTypes, None
    <3> QED
      BY <2>1, <3>1, <3>2, <1>4, <1>5 DEF Kept
  <2> QED
    BY <2>1, <2>3, <1>1 DEF HandlesInv, NoUseAfterFree, Kept
<1> QED
  BY <1>3, <1>9, <1>10, <1>11, <1>12, <1>13 DEF HandlesInv

(* The finalizer of an object, run by the collector or by hand.              *)
LEMMA FinalizerKeeps ==
    ASSUME HandlesInv, NEW o \in Objects, RunFinalizer(o), kindOf[o] # None, o \notin finalized,
           \A t \in Threads : Running(t) => /\ call[t].self = o => ~call[t].method.keeps /\ o \notin held
                                           /\ o \notin call[t].args,
           \/ o \notin held /\ finalized' = finalized \cup {o} /\ byHand' = byHand
           \/ /\ finalized' = finalized
              /\ byHand' = IF kindOf[o] = "Data" THEN byHand \cup {o} ELSE byHand
    PROVE  HandlesInv'
<1> USE ObjectsAssumption
<1>1. /\ box' = IF Frees(o) THEN [box EXCEPT ![o] = Freed(@)] ELSE box
      /\ closed' = IF o \in Databases THEN closed \cup {o} ELSE closed
      /\ kindOf' = kindOf /\ held' = held /\ call' = call /\ aborted' = aborted
  BY DEF RunFinalizer
<1>2. ASSUME NEW t \in Threads, Running(t), call[t].method.keeps
      PROVE  call[t].self # o
  BY <1>2
<1>3. ~Consumed(o)
  <2> SUFFICES ASSUME NEW t \in Threads, call[t].phase = "worked", call[t].self = o,
                      call[t].method.moves
               PROVE  FALSE
    BY DEF Consumed
  <2>1. CallSound(call[t]) /\ Running(t)
    BY DEF HandlesInv, CallsSound, Active, Running
  <2> QED
    BY <2>1, <1>2 DEF CallSound, MethodSound
<1>4. /\ \A p \in Objects : p # o => box'[p] = box[p]
      /\ finalized' \in {finalized, finalized \cup {o}} /\ byHand' \in {byHand, byHand \cup {o}}
  BY <1>1
<1>5. /\ Frees(o) => box'[o] # "alive" /\ box'[o] # None
      /\ Frees(o) /\ o \notin byHand => box'[o] # "corrupt"
      /\ ~Frees(o) => box' = box
  <2>1. Frees(o) /\ o \notin byHand => Owns(o)
    BY DEF Frees, Owns, HandlesInv, TypeOK
  <2>2. Frees(o) /\ o \notin byHand => box[o] \in {"alive", "borrowed"}
    BY <2>1, <1>3 DEF HandlesInv, BoxesSound
  <2>3. Frees(o) => box'[o] = Freed(box[o])
    BY <1>1 DEF HandlesInv, TypeOK
  <2>4. Freed(box[o]) \in {"freed", "borrowed", "corrupt"}
    BY DEF Freed
  <2>5. box[o] \in {"alive", "borrowed"} => Freed(box[o]) # "corrupt"
    BY DEF Freed
  <2> QED
    BY <2>2, <2>3, <2>4, <2>5, <1>1 DEF None
<1>6. ~Frees(o) => kindOf[o] = "Config" \/ o \in closed
  BY DEF Frees
<1>7. TypeOK'
  <2>1. box' \in [Objects -> {None, "alive", "borrowed", "lost", "freed", "corrupt"}]
    BY <1>1 DEF HandlesInv, TypeOK, Freed
  <2>2. byHand' \subseteq {p \in Objects : kindOf'[p] = "Data"}
    BY <1>1 DEF HandlesInv, TypeOK
  <2> QED
    BY <1>1, <2>1, <2>2 DEF HandlesInv, TypeOK, Databases, Active
<1>8. CallsSound'
  <2> SUFFICES ASSUME NEW t \in Threads, Active(t)
               PROVE  CallSound(call[t])'
    BY <1>1 DEF CallsSound, Active
  <2> PICK c : c = call[t]
    OBVIOUS
  <2>1. CallSound(c) /\ c \in ActiveCalls
    BY DEF HandlesInv, CallsSound, Active, Idle
  <2>2. c.phase # "answered" => c.self # o \/ ~c.method.keeps
    BY <2>1, <1>2 DEF Running, ActiveCalls
  <2>3. c.phase = "entered" /\ c.self \in closed' => c.method.moves \/ ~c.method.keeps
    BY <2>1, <2>2, <1>1 DEF CallSound
  <2>4. c.phase # "entered" /\ c.method.moves => box'[c.self] # "alive"
    BY <2>1, <1>4, <1>5 DEF CallSound, MethodSound, None
  <2>5. GivenSound(c)'
    <3>1. GivenSound(c)
      BY <2>1 DEF CallSound
    <3>2. c.given # None => box'[c.given] = box[c.given]
      BY <2>1, <3>1, <1>4 DEF GivenSound, ActiveCalls
    <3> QED
      BY <3>1, <3>2, <1>1 DEF GivenSound
  <2>6. closed \subseteq closed'
    BY <1>1
  <2>7. CallSound(c)'
    BY <2>1, <2>3, <2>4, <2>5, <2>6, <1>1 DEF CallSound
  <2> QED
    BY <2>7, <1>1 DEF CallSound, GivenSound
<1>9. CallsApart'
  BY <1>1 DEF HandlesInv, CallsApart, Running, Active, Databases
<1>10. BoxesSound'
  <2> SUFFICES ASSUME NEW p \in Objects
               PROVE  /\ box'[p] = None => kindOf[p] = None
                      /\ p \in finalized' => kindOf[p] # None
                      /\ Owns(p)' /\ ~Consumed(p) => box'[p] \in {"alive", "borrowed"}
                      /\ box'[p] = "alive" /\ kindOf[p] # "Config" /\ ~Owns(p)'
                         => \E u \in Threads : Carries(u, p)'
    BY <1>1 DEF BoxesSound, Consumed
  <2>1. /\ box[p] = None => kindOf[p] = None
        /\ p \in finalized => kindOf[p] # None
        /\ Owns(p) /\ ~Consumed(p) => box[p] \in {"alive", "borrowed"}
        /\ box[p] = "alive" /\ kindOf[p] # "Config" /\ ~Owns(p)
           => \E u \in Threads : Carries(u, p)
    BY DEF HandlesInv, BoxesSound
  <2>2. ASSUME NEW u \in Threads, Carries(u, p)
        PROVE  Carries(u, p)'
    BY <2>2, <1>1 DEF Carries, Running
  <2>3. CASE p # o
    <3>1. Owns(p)' <=> Owns(p)
      BY <2>3, <1>1, <1>4 DEF Owns
    <3> QED
      BY <2>1, <2>2, <2>3, <3>1, <1>1, <1>4
  <2>4. CASE p = o
    <3>1. Owns(o)' => kindOf[o] = "Config" /\ ~Frees(o) /\ Owns(o)
      BY <1>1, <1>4 DEF Owns, Databases, HandlesInv, TypeOK, Kinds, None, Frees
    <3>2. ~Frees(o) /\ kindOf[o] # "Config" => ~Owns(o)
      BY <1>6 DEF Owns
    <3> QED
      BY <2>1, <2>2, <2>4, <3>1, <3>2, <1>1, <1>5 DEF None
  <2> QED
    BY <2>3, <2>4
<1>11. NoUseAfterFree'
  <2>1. \A p \in Objects \ byHand' : box'[p] # "corrupt"
    BY <1>4, <1>5 DEF HandlesInv, NoUseAfterFree
  <2>2. ASSUME NEW t \in Threads, call[t].phase = "entered", NEW p \in Kept(call[t])' \ byHand'
        PROVE  box'[p] \in {"alive", "borrowed"}
    <3>1. Running(t) /\ p \in Kept(call[t]) \ byHand
      BY <2>2, <1>1, <1>4 DEF Kept, Running
    <3>2. p # o /\ box[p] \in {"alive", "borrowed"}
      BY <2>2, <3>1 DEF HandlesInv, NoUseAfterFree, Kept
    <3>3. p \in Objects
      BY <2>2, <3>1 DEF HandlesInv, ActiveCalls, Idle, Kept
    <3> QED
      BY <3>2, <3>3, <1>4
  <2> QED
    BY <2>1, <2>2, <1>1 DEF NoUseAfterFree
<1> QED
  BY <1>1, <1>7, <1>8, <1>9, <1>10, <1>11 DEF HandlesInv

LEMMA FinalizeKeeps ==
    ASSUME HandlesInv, NEW o \in Objects, Finalize(o)
    PROVE  HandlesInv'
<1>1. /\ RunFinalizer(o) /\ kindOf[o] # None /\ o \notin finalized /\ o \notin held
      /\ finalized' = finalized \cup {o} /\ byHand' = byHand
      /\ \A t \in Threads : Active(t) /\ call[t].self = o => ~call[t].method.keeps
  BY DEF Finalize, Unreachable
<1>2. ASSUME NEW t \in Threads, Running(t)
      PROVE  Active(t) /\ o \notin call[t].args
  BY <1>1, <1>2 DEF HandlesInv, CallsSound, CallSound, Active, Running
<1> QED
  BY <1>1, <1>2, FinalizerKeeps

LEMMA FinalizeByHandKeeps ==
    ASSUME HandlesInv, NEW o \in Objects, FinalizeByHand(o)
    PROVE  HandlesInv'
<1>1. /\ RunFinalizer(o) /\ kindOf[o] # None /\ o \notin finalized
      /\ finalized' = finalized
      /\ byHand' = IF kindOf[o] = "Data" THEN byHand \cup {o} ELSE byHand
      /\ \A t \in Threads : Running(t) => call[t].self # o /\ o \notin call[t].args
  BY DEF FinalizeByHand, HandlesInv, TypeOK, Busy, Passed
<1> QED
  BY <1>1, FinalizerKeeps

-----------------------------------------------------------------------------
(* The calls of every thread keep to the inductive invariant: the arguments  *)
(* of a call stay reachable, a database is in one call at a time, what a     *)
(* call consumed is closed before the next one, and under a call a finalizer *)
(* runs only if the method is static.                                       *)
THEOREM HandlesInvariant == Spec => []HandlesInv
<1>1. Init => HandlesInv
  <2> SUFFICES ASSUME Init PROVE HandlesInv
    OBVIOUS
  <2>1. \A t \in Threads : call[t] = Idle /\ ~Active(t) /\ ~Running(t)
    BY DEF Init, Active, Running, Idle
  <2>2. TypeOK
    BY <2>1 DEF Init, TypeOK
  <2>3. BoxesSound
    BY DEF Init, BoxesSound, Owns, None
  <2>4. CallsSound /\ CallsApart
    BY <2>1 DEF CallsSound, CallsApart
  <2>5. NoUseAfterFree
    BY <2>1 DEF Init, NoUseAfterFree, Kept, Idle, None
  <2>6. call \in [Threads -> {Idle} \cup ActiveCalls]
    BY DEF Init
  <2> QED
    BY <2>2, <2>3, <2>4, <2>5, <2>6 DEF HandlesInv
<1>2. HandlesInv /\ [Next]_vars => HandlesInv'
  <2> SUFFICES ASSUME HandlesInv, [Next]_vars PROVE HandlesInv'
    OBVIOUS
  <2>1. CASE Next
    <3>1. ASSUME NEW t \in Threads, BeginSome(t) PROVE HandlesInv'
      BY <3>1, BeginKeeps DEF BeginSome
    <3>2. ASSUME NEW t \in Threads, NEW given \in Objects \cup {None},
                 NEW kind \in Kinds \cup {None, "Borrowed", "Lost"}, Work(t, given, kind)
          PROVE  HandlesInv'
      BY <3>2, WorkKeeps DEF Results
    <3>3. ASSUME NEW t \in Threads, Fail(t) \/ Callback(t) \/ Return(t) PROVE HandlesInv'
      BY <3>3, FailKeeps, CallbackKeeps, ReturnKeeps
    <3>4. ASSUME NEW o \in Objects, Forget(o) \/ Finalize(o) \/ FinalizeByHand(o)
          PROVE  HandlesInv'
      BY <3>4, ForgetKeeps, FinalizeKeeps, FinalizeByHandKeeps
    <3> QED
      BY <2>1, <3>1, <3>2, <3>3, <3>4 DEF Next, Calls
  <2>2. CASE UNCHANGED vars
    <3>1. aborted' \in BOOLEAN
      BY <2>2 DEF vars, HandlesInv, TypeOK
    <3> QED
      BY <2>2, <3>1, StutterKeeps DEF vars
  <2> QED
    BY <2>1, <2>2
<1> QED
  BY <1>1, <1>2, PTL DEF Spec

(* NoUseAfterFree of the handles run, for any number of threads and objects:   *)
(* no native function of the bindings is given a box that is freed, and none   *)
(* is freed twice, by calls, callbacks or finalizers that run once or more.    *)
(* Left out are what static methods work on when nobody holds the object, and  *)
(* the data objects that a test has finalized by hand.                         *)
THEOREM NothingUsedAfterFree == Spec => []NoUseAfterFree
<1>1. HandlesInv => NoUseAfterFree
  BY DEF HandlesInv
<1> QED
  BY <1>1, HandlesInvariant, PTL

(* OneOwner of the handles run: a box that is there has one owner that frees   *)
(* it, the Kotlin object or the call that is about to consume or to return it. *)
THEOREM EveryBoxOwned == Spec => []OneOwner
<1> USE ObjectsAssumption
<1>1. HandlesInv => OneOwner
  <2> SUFFICES ASSUME HandlesInv, NEW o \in Objects
               PROVE  /\ Owns(o) => {t \in Threads : Carries(t, o)} = {}
                      /\ box[o] = "alive" /\ kindOf[o] # "Config" /\ ~Owns(o)
                         => Cardinality({t \in Threads : Carries(t, o)}) = 1
                      /\ Owns(o) /\ ~Busy(o) => box[o] \in {"alive", "borrowed"}
    BY DEF OneOwner
  <2>1. ASSUME NEW t \in Threads, Carries(t, o)
        PROVE  /\ CallSound(call[t]) /\ Running(t) /\ Active(t)
               /\ \/ call[t].given = o /\ kindOf[o] = None
                  \/ call[t].self = o /\ o \in closed /\ kindOf[o] # None
    <3>1. CallSound(call[t]) /\ Running(t) /\ Active(t)
      BY <2>1 DEF Carries, HandlesInv, CallsSound, Active, Running
    <3> QED
      BY <3>1, <2>1 DEF Carries, CallSound, GivenSound, HandlesInv, TypeOK, Databases, None
  <2>2. Owns(o) => {t \in Threads : Carries(t, o)} = {}
    BY <2>1 DEF Owns
  <2>3. \A t, u \in Threads : Carries(t, o) /\ Carries(u, o) => t = u
    BY <2>1 DEF HandlesInv, CallsApart, TypeOK, None
  <2>4. ASSUME box[o] = "alive", kindOf[o] # "Config", ~Owns(o)
        PROVE  Cardinality({t \in Threads : Carries(t, o)}) = 1
    <3>1. PICK t \in Threads : Carries(t, o)
      BY <2>4 DEF HandlesInv, BoxesSound
    <3>2. {u \in Threads : Carries(u, o)} = {t}
      BY <3>1, <2>3
    <3> QED
      BY <3>2, FS_Singleton
  <2>5. Owns(o) /\ ~Busy(o) => box[o] \in {"alive", "borrowed"}
    <3>1. ~Busy(o) => ~Consumed(o)
      BY DEF Busy, Consumed, Running
    <3> QED
      BY <3>1 DEF HandlesInv, BoxesSound
  <2> QED
    BY <2>2, <2>4, <2>5
<1> QED
  BY <1>1, HandlesInvariant, PTL
=============================================================================
