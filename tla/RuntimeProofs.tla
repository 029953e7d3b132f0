------------------------------ MODULE RuntimeProofs ------------------------------
(* The desktop, its server and the other processes of a data profile, for any  *)
(* settings, any number of server processes, faults and unread status lines.   *)
EXTENDS Runtime, TLAPS, SequenceTheorems

------------------------------------------------------------------------------
(* What may be left of a worker's call. An apply is saving its settings,       *)
(* trying them, going back to the previous ones or starting with these again.  *)

Saving == {<<"stop", "save", "start", "check">>, <<"save", "start", "check">>}
Trying == {<<"start", "check">>, <<"await", "check">>, <<"stop", "timeout", "check">>,
           <<"timeout", "check">>, <<"check">>}
GoingBack == {<<"stop", "restore", "start", "notify">>, <<"restore", "start", "notify">>}
Again == {<<"start", "notify">>, <<"await", "notify">>, <<"stop", "timeout", "notify">>,
          <<"timeout", "notify">>, <<"notify">>}
Plain == {<<"stop", "start">>, <<"stop">>, <<"start">>, <<"await">>,
          <<"stop", "timeout">>, <<"timeout">>}

Applying == Saving \cup Trying \cup GoingBack \cup Again

------------------------------------------------------------------------------
(* The inductive invariant.                                                    *)

\* Only its holder writes under desktop.lock: no desktop is open beside a
\* configure command that may still save.
LocksOK ==
    /\ window.open <=> desktopLock = "desktop"
    /\ headless = "probing" => desktopLock = "headless"
    /\ configure # "off" => desktopLock = "configure"

\* A closed window has no controller and no worker.
ClosedOK == ~window.open => window = NoWindow /\ controller = NoController /\ work = NoWork

\* The settings are saved, and a server is started, only when none is left.
WorkOK ==
    /\ work.todo \in {<<>>, <<"raised">>} \cup Plain \cup Applying
    /\ Does("save") \/ Does("restore") \/ Does("start") => controller.process = NoChild

\* An apply knows the settings it wants, and those it may go back to.
ApplyOK ==
    /\ work.todo \in Applying => work.desired # NoConfig
    /\ work.todo \in GoingBack => work.previous # NoConfig
    /\ work.desired # NoConfig =>
           /\ work.todo \notin Plain
           /\ work.todo \in Trying => file = work.desired /\ (Does("start") \/ ~controller.notice)
           /\ work.todo \in Again => file = work.previous
    /\ ApplyRestores

\* A server reports only what it has read from runtime.json.
ReportsOK ==
    \A s \in Child :
        /\ child[s].stage \in {"bound", "serving"} => child[s].config # NoConfig
        /\ Alive(s) /\ child[s].config = NoConfig => child[s].out = <<>>

\* The desktop's server has read what the controller read before it.
ServedOK ==
    /\ controller.queue \subseteq {controller.process}
    /\ controller.process # NoChild =>
           /\ file = controller.active
           /\ child[controller.process].config \in {NoConfig, file}
    /\ controller.state = "running" =>
           /\ controller.process # NoChild
           /\ Running => child[controller.process].config # NoConfig

Inv ==
    /\ TypeOK
    /\ LocksOK
    /\ ClosedOK
    /\ WorkOK
    /\ ApplyOK
    /\ ReportsOK
    /\ ServedOK

------------------------------------------------------------------------------
(* Calls.                                                                      *)

(* A call does its first step next.                                            *)
LEMMA First ==
    /\ Head(<<"raised">>) = "raised"
    /\ Head(<<"stop", "start">>) = "stop" /\ Head(<<"stop">>) = "stop"
    /\ Head(<<"start">>) = "start" /\ Head(<<"await">>) = "await"
    /\ Head(<<"stop", "timeout">>) = "stop" /\ Head(<<"timeout">>) = "timeout"
    /\ Head(<<"stop", "save", "start", "check">>) = "stop"
    /\ Head(<<"save", "start", "check">>) = "save"
    /\ Head(<<"start", "check">>) = "start" /\ Head(<<"await", "check">>) = "await"
    /\ Head(<<"stop", "timeout", "check">>) = "stop"
    /\ Head(<<"timeout", "check">>) = "timeout" /\ Head(<<"check">>) = "check"
    /\ Head(<<"stop", "restore", "start", "notify">>) = "stop"
    /\ Head(<<"restore", "start", "notify">>) = "restore"
    /\ Head(<<"start", "notify">>) = "start" /\ Head(<<"await", "notify">>) = "await"
    /\ Head(<<"stop", "timeout", "notify">>) = "stop"
    /\ Head(<<"timeout", "notify">>) = "timeout" /\ Head(<<"notify">>) = "notify"
OBVIOUS

(* What is left of a call after its first step.                                *)
LEMMA Remainder ==
    /\ Tail(<<"stop", "start">>) = <<"start">> /\ Tail(<<"stop">>) = <<>>
    /\ Tail(<<"start">>) = <<>> /\ Tail(<<"await">>) = <<>>
    /\ Tail(<<"stop", "timeout">>) = <<"timeout">> /\ Tail(<<"timeout">>) = <<>>
    /\ Tail(<<"stop", "save", "start", "check">>) = <<"save", "start", "check">>
    /\ Tail(<<"save", "start", "check">>) = <<"start", "check">>
    /\ Tail(<<"start", "check">>) = <<"check">> /\ Tail(<<"await", "check">>) = <<"check">>
    /\ Tail(<<"stop", "timeout", "check">>) = <<"timeout", "check">>
    /\ Tail(<<"timeout", "check">>) = <<"check">> /\ Tail(<<"check">>) = <<>>
    /\ Tail(<<"stop", "restore", "start", "notify">>) = <<"restore", "start", "notify">>
    /\ Tail(<<"restore", "start", "notify">>) = <<"start", "notify">>
    /\ Tail(<<"start", "notify">>) = <<"notify">> /\ Tail(<<"await", "notify">>) = <<"notify">>
    /\ Tail(<<"stop", "timeout", "notify">>) = <<"timeout", "notify">>
    /\ Tail(<<"timeout", "notify">>) = <<"notify">> /\ Tail(<<"notify">>) = <<>>
OBVIOUS

(* One or two steps before one that is left.                                   *)
LEMMA Prefixed ==
    ASSUME NEW a, NEW b, NEW c
    PROVE  /\ <<a>> \o <<>> = <<a>> /\ <<a, b>> \o <<>> = <<a, b>>
           /\ <<a>> \o <<c>> = <<a, c>> /\ <<a, b>> \o <<c>> = <<a, b, c>>
<1> DEFINE S == {a, b, c}
<1>1. <<a>> \o <<>> = <<a>> /\ <<a, b>> \o <<>> = <<a, b>>
  OBVIOUS
<1>2. <<a>> \o <<c>> = <<a, c>>
  <2>1. <<a>> \in Seq(S) /\ <<c>> \in Seq(S) /\ <<a, c>> \in Seq(S)
    OBVIOUS
  <2>2. <<a>> \o <<c>> \in Seq(S) /\ Len(<<a>> \o <<c>>) = 2
    BY <2>1
  <2>3. \A i \in 1 .. 2 : (<<a>> \o <<c>>)[i] = <<a, c>>[i]
    BY <2>1
  <2> QED
    BY <2>1, <2>2, <2>3, SeqEqual
<1>3. <<a, b>> \o <<c>> = <<a, b, c>>
  <2>1. <<a, b>> \in Seq(S) /\ <<c>> \in Seq(S) /\ <<a, b, c>> \in Seq(S)
    OBVIOUS
  <2>2. <<a, b>> \o <<c>> \in Seq(S) /\ Len(<<a, b>> \o <<c>>) = 3
    BY <2>1
  <2>3. \A i \in 1 .. 3 : (<<a, b>> \o <<c>>)[i] = <<a, b, c>>[i]
    BY <2>1
  <2> QED
    BY <2>1, <2>2, <2>3, SeqEqual
<1> QED
  BY <1>1, <1>2, <1>3

\* What may be left of a call.
Todos == {<<>>, <<"raised">>} \cup Plain \cup Applying

(* The next step of a call tells where in which call it is.                    *)
LEMMA CallKinds ==
    ASSUME NEW todo \in Todos, todo # <<>>
    PROVE  /\ todo \in Seq(Calls)
           /\ todo # <<"raised">> => Tail(todo) \in Todos
           /\ Head(todo) = "save" => todo = <<"save", "start", "check">> 
           /\ Head(todo) = "restore" => todo = <<"restore", "start", "notify">>
           /\ Head(todo) = "check" => todo = <<"check">>
           /\ Head(todo) = "notify" => todo = <<"notify">>
           /\ Head(todo) = "start" => Tail(todo) \in {<<>>, <<"check">>, <<"notify">>}
           /\ Head(todo) = "await" => Tail(todo) \in {<<>>, <<"check">>, <<"notify">>}
           /\ Head(todo) = "raised" => todo = <<"raised">>
<1> USE DEF Todos, Plain, Applying, Saving, Trying, GoingBack, Again
<1>1. todo \in Seq(Calls)
  <2>1. Saving \subseteq Seq(Calls)
    BY DEF Calls
  <2>2. Trying \subseteq Seq(Calls)
    BY DEF Calls
  <2>3. GoingBack \subseteq Seq(Calls)
    BY DEF Calls
  <2>4. Again \subseteq Seq(Calls)
    BY DEF Calls
  <2>5. Plain \subseteq Seq(Calls)
    BY DEF Calls
  <2>6. {<<"raised">>} \subseteq Seq(Calls)
    BY DEF Calls
  <2> HIDE DEF Plain, Saving, Trying, GoingBack, Again
  <2> QED
    BY <2>1, <2>2, <2>3, <2>4, <2>5, <2>6
<1>2. todo # <<"raised">> => Tail(todo) \in Todos
  BY Remainder
<1>3. Head(todo) = "save" => todo = <<"save", "start", "check">> 
  BY First
<1>4. Head(todo) = "restore" => todo = <<"restore", "start", "notify">>
  BY First
<1>5. Head(todo) \in {"check", "notify", "raised"} => todo = <<Head(todo)>>
  BY First
<1>6. Head(todo) = "start" => Tail(todo) \in {<<>>, <<"check">>, <<"notify">>}
  BY First, Remainder
<1>7. Head(todo) = "await" => Tail(todo) \in {<<>>, <<"check">>, <<"notify">>}
  BY First, Remainder
<1> QED
  BY <1>1, <1>2, <1>3, <1>4, <1>5, <1>6, <1>7

(* The kinds of calls have nothing in common.                                  *)
LEMMA Kinds ==
    /\ <<>> \notin Plain \cup Applying /\ <<"raised">> \notin Plain \cup Applying
    /\ Plain \cap Applying = {}
    /\ Saving \cap (Trying \cup GoingBack \cup Again) = {}
    /\ Trying \cap (GoingBack \cup Again) = {}
    /\ GoingBack \cap Again = {}
<1>1. <<>> \notin Plain \cup Applying /\ <<"raised">> \notin Plain \cup Applying
  BY DEF Plain, Applying, Saving, Trying, GoingBack, Again
<1>2. Plain \cap Saving = {} /\ Plain \cap GoingBack = {}
  BY DEF Plain, Saving, GoingBack
<1>3. Plain \cap Trying = {}
  BY DEF Plain, Trying
<1>4. Plain \cap Again = {}
  BY DEF Plain, Again
<1>5. Saving \cap Trying = {}
  BY DEF Saving, Trying
<1>6. Saving \cap GoingBack = {} /\ Saving \cap Again = {}
  BY DEF Saving, GoingBack, Again
<1>7. Trying \cap GoingBack = {}
  BY DEF Trying, GoingBack
<1>8. Trying \cap Again = {}
  BY DEF Trying, Again
<1>9. GoingBack \cap Again = {}
  BY DEF GoingBack, Again
<1> QED
  BY <1>1, <1>2, <1>3, <1>4, <1>5, <1>6, <1>7, <1>8, <1>9 DEF Applying

(* A call goes on within its kind, and what may follow a stop, a save or a     *)
(* restore follows nothing else.                                               *)
LEMMA GoesOn ==
    ASSUME NEW todo \in Todos, todo # <<>>, todo # <<"raised">>
    PROVE  /\ Tail(todo) # <<"raised">>
           /\ Tail(todo) \in Plain => todo \in Plain
           /\ Tail(todo) \in Saving => todo \in Saving
           /\ Tail(todo) \in Trying =>
                  (todo \in Trying /\ Head(Tail(todo)) # "start") \/ Head(todo) = "save"
           /\ Tail(todo) \in GoingBack => todo \in GoingBack
           /\ Tail(todo) \in Again => todo \in Again \/ Head(todo) = "restore"
           /\ Tail(todo) = <<>> => todo \in Plain \/ Head(todo) \in {"check", "notify"}
           /\ Tail(todo) # <<>> /\ Head(Tail(todo)) \in {"save", "restore", "start"}
                  => Head(todo) \in {"stop", "save", "restore"}
<1>1. CASE todo \in Plain
  <2>1. Tail(todo) \in {<<>>, <<"timeout">>} \/ (Tail(todo) = <<"start">> /\ Head(todo) = "stop")
    BY <1>1, First, Remainder DEF Plain
  <2>2. {<<"timeout">>, <<"start">>} \subseteq Plain
    BY DEF Plain
  <2>3. <<>> # <<"raised">>
    OBVIOUS
  <2> QED
    BY <1>1, <2>1, <2>2, <2>3, Kinds, First DEF Applying
<1>2. CASE todo \in Saving
  <2>1. \/ Tail(todo) = <<"save", "start", "check">> /\ Head(todo) = "stop"
        \/ Tail(todo) = <<"start", "check">> /\ Head(todo) = "save"
    BY <1>2, First, Remainder DEF Saving
  <2>2. <<"save", "start", "check">> \in Saving /\ <<"start", "check">> \in Trying
    BY DEF Saving, Trying
  <2> QED
    BY <1>2, <2>1, <2>2, Kinds, First DEF Applying
<1>3. CASE todo \in Trying
  <2>1. \/ Tail(todo) \in {<<"check">>, <<"timeout", "check">>}
        \/ Tail(todo) = <<>> /\ Head(todo) = "check"
    BY <1>3, First, Remainder DEF Trying
  <2>2. {<<"check">>, <<"timeout", "check">>} \subseteq Trying
    BY DEF Trying
  <2>3. <<>> # <<"raised">>
    OBVIOUS
  <2> QED
    BY <1>3, <2>1, <2>2, <2>3, Kinds, First DEF Applying
<1>4. CASE todo \in GoingBack
  <2>1. \/ Tail(todo) = <<"restore", "start", "notify">> /\ Head(todo) = "stop"
        \/ Tail(todo) = <<"start", "notify">> /\ Head(todo) = "restore"
    BY <1>4, First, Remainder DEF GoingBack
  <2>2. <<"restore", "start", "notify">> \in GoingBack /\ <<"start", "notify">> \in Again
    BY DEF GoingBack, Again
  <2> QED
    BY <1>4, <2>1, <2>2, Kinds, First DEF Applying
<1>5. CASE todo \in Again
  <2>1. \/ Tail(todo) \in {<<"notify">>, <<"timeout", "notify">>}
        \/ Tail(todo) = <<>> /\ Head(todo) = "notify"
    BY <1>5, First, Remainder DEF Again
  <2>2. {<<"notify">>, <<"timeout", "notify">>} \subseteq Again
    BY DEF Again
  <2>3. <<>> # <<"raised">>
    OBVIOUS
  <2> QED
    BY <1>5, <2>1, <2>2, <2>3, Kinds, First DEF Applying
<1> QED
  BY <1>1, <1>2, <1>3, <1>4, <1>5 DEF Todos, Applying

(* A start goes on by waiting, and a wait that times out by stopping.          *)
LEMMA Waits ==
    ASSUME NEW todo \in Todos, todo # <<>>, Head(todo) \in {"start", "await"},
           NEW next \in {<<"await">> \o Tail(todo), <<"stop", "timeout">> \o Tail(todo)}
    PROVE  /\ next \in Plain \cup Trying \cup Again /\ Head(next) \in {"await", "stop"}
           /\ next # <<>>
           /\ next \in Plain => todo \in Plain
           /\ next \in Trying => todo \in Trying
           /\ next \in Again => todo \in Again
           /\ next \notin Saving /\ next \notin GoingBack
<1>1. todo \in {<<"start">>, <<"start", "check">>, <<"start", "notify">>,
                <<"await">>, <<"await", "check">>, <<"await", "notify">>}
  BY First DEF Todos, Plain, Applying, Saving, Trying, GoingBack, Again
<1>2. /\ <<"await">> \o <<>> = <<"await">>
      /\ <<"stop", "timeout">> \o <<>> = <<"stop", "timeout">>
      /\ <<"await">> \o <<"check">> = <<"await", "check">>
      /\ <<"stop", "timeout">> \o <<"check">> = <<"stop", "timeout", "check">>
      /\ <<"await">> \o <<"notify">> = <<"await", "notify">>
      /\ <<"stop", "timeout">> \o <<"notify">> = <<"stop", "timeout", "notify">>
  <2>1. <<"await">> \o <<>> = <<"await">> /\ <<"stop", "timeout">> \o <<>> = <<"stop", "timeout">>
    OBVIOUS
  <2>2. ASSUME NEW c PROVE /\ <<"await">> \o <<c>> = <<"await", c>>
                           /\ <<"stop", "timeout">> \o <<c>> = <<"stop", "timeout", c>>
    BY Prefixed, ZenonT(60)
  <2>3. /\ <<"await">> \o <<"check">> = <<"await", "check">>
        /\ <<"stop", "timeout">> \o <<"check">> = <<"stop", "timeout", "check">>
    BY <2>2, Zenon
  <2>4. /\ <<"await">> \o <<"notify">> = <<"await", "notify">>
        /\ <<"stop", "timeout">> \o <<"notify">> = <<"stop", "timeout", "notify">>
    BY <2>2, Zenon
  <2> QED
    BY <2>1, <2>3, <2>4, Zenon
<1>3. \/ Tail(todo) = <<>> /\ todo \in Plain
      \/ Tail(todo) = <<"check">> /\ todo \in Trying
      \/ Tail(todo) = <<"notify">> /\ todo \in Again
  BY <1>1, Remainder DEF Plain, Trying, Again
<1>4. \/ next \in {<<"await">>, <<"stop", "timeout">>} /\ todo \in Plain
      \/ next \in {<<"await", "check">>, <<"stop", "timeout", "check">>} /\ todo \in Trying
      \/ next \in {<<"await", "notify">>, <<"stop", "timeout", "notify">>} /\ todo \in Again
  BY <1>2, <1>3
<1>5. /\ {<<"await">>, <<"stop", "timeout">>} \subseteq Plain
      /\ {<<"await", "check">>, <<"stop", "timeout", "check">>} \subseteq Trying
      /\ {<<"await", "notify">>, <<"stop", "timeout", "notify">>} \subseteq Again
  BY DEF Plain, Trying, Again
<1>6. Head(next) \in {"await", "stop"}
  BY <1>4, First
<1> QED
  BY <1>4, <1>5, <1>6, Kinds DEF Applying

------------------------------------------------------------------------------
(* The lines of a server.                                                      *)

\* What a server is, whatever it does.
Servers == [stage : {"boot", "locked", "bound", "serving", "hung", "exited"},
            config : Config \cup {NoConfig}, eof : BOOLEAN, term : BOOLEAN, out : Seq(Lines)]

(* What a server has written are lines, whatever it writes next.               *)
LEMMA WrittenType ==
    ASSUME TypeOK, NEW s \in Child, NEW lines \in Seq(Lines)
    PROVE  Written(s, lines) \in Seq(Lines)
<1>1. child[s].out \in Seq(Lines)
  BY DEF TypeOK
<1>2. child[s].out \o lines \in Seq(Lines)
  BY <1>1, ConcatProperties
<1> QED
  BY <1>1, <1>2 DEF Written

(* A server that has exited is a server.                                       *)
LEMMA ExitedType ==
    ASSUME NEW out \in Seq(Lines)
    PROVE  Exited \in Servers /\ [Exited EXCEPT !.out = out] \in Servers
<1>1. <<>> \in Seq(Lines)
  OBVIOUS
<1> QED
  BY <1>1 DEF Exited, Servers

(* A server that ends is replaced by one that has exited.                      *)
LEMMA ExitType ==
    ASSUME TypeOK, NEW s \in Child, NEW lines \in Seq(Lines), Exit(s, lines)
    PROVE  /\ child' \in [Child -> Servers]
           /\ serverLock' \in {Free, "headless", "configure"} \cup Child
           /\ child' = [child EXCEPT ![s] = [Exited EXCEPT !.out = Written(s, lines)]]
<1>1. [Exited EXCEPT !.out = Written(s, lines)] \in Servers
  BY WrittenType, ExitedType
<1> QED
  BY <1>1 DEF Exit, Released, TypeOK, Servers

(* A reader takes lines off the front.                                         *)
LEMMA ReadsType ==
    ASSUME TypeOK, ReadsLines
    PROVE  /\ child' \in [Child -> Servers]
           /\ \E s \in controller.queue, line \in Lines :
                  /\ child[s].out # <<>>
                  /\ child' = [child EXCEPT ![s] = [@ EXCEPT !.out = child'[s].out]]
                  /\ controller' = Polled(Reported(line))
           /\ \A s \in Child : child[s].out = <<>> => child'[s].out = <<>>
<1>1. PICK s \in controller.queue : \E i \in 1 .. Len(child[s].out) :
          /\ child' = [child EXCEPT ![s].out = SubSeq(@, i + 1, Len(@))]
          /\ controller' = Polled(Reported(child[s].out[i]))
  BY DEF ReadsLines
<1>2. PICK i \in 1 .. Len(child[s].out) :
          /\ child' = [child EXCEPT ![s].out = SubSeq(@, i + 1, Len(@))]
          /\ controller' = Polled(Reported(child[s].out[i]))
  BY <1>1
<1>3. s \in Child /\ child[s].out \in Seq(Lines)
  BY <1>1 DEF TypeOK
<1>4. SubSeq(child[s].out, i + 1, Len(child[s].out)) \in Seq(Lines)
  BY <1>3, SubSeqProperties
<1>5. child[s].out[i] \in Lines /\ child[s].out # <<>>
  BY <1>3, ElementOfSeq
<1>6. child' = [child EXCEPT ![s] = [@ EXCEPT !.out = SubSeq(child[s].out, i + 1, Len(child[s].out))]]
  BY <1>2, <1>3 DEF TypeOK
<1>7. child'[s].out = SubSeq(child[s].out, i + 1, Len(child[s].out))
  BY <1>3, <1>6 DEF TypeOK
<1>8. child' \in [Child -> Servers]
  <2>1. child \in [Child -> Servers]
    BY DEF TypeOK, Servers
  <2>2. child[s] \in Servers
    BY <1>3, <2>1
  <2>3. [child[s] EXCEPT !.out = SubSeq(child[s].out, i + 1, Len(child[s].out))] \in Servers
    BY <1>4, <2>2 DEF Servers
  <2> QED
    BY <1>3, <1>6, <2>1, <2>3
<1>9. \A c \in Child : child[c].out = <<>> => child'[c].out = <<>>
  BY <1>3, <1>5, <1>6 DEF TypeOK
<1>10. child' = [child EXCEPT ![s] = [@ EXCEPT !.out = child'[s].out]]
  BY <1>6, <1>7
<1> QED
  BY <1>1, <1>2, <1>5, <1>8, <1>9, <1>10

------------------------------------------------------------------------------
(* The attributes of the controller.                                           *)

Controllers == [process : Child \cup {NoChild}, queue : SUBSET Child,
                state : {"stopped", "starting", "running", "error"},
                active : Config \cup {NoConfig}, notice : BOOLEAN, shown : BOOLEAN]

(* What refresh makes of the controller.                                       *)
LEMMA PolledType ==
    ASSUME NEW c \in Controllers
    PROVE  /\ Polled(c) \in Controllers
           /\ Polled(c).process = c.process /\ Polled(c).queue = c.queue
           /\ Polled(c).active = c.active /\ Polled(c).notice = c.notice
           /\ Polled(c).state = IF c.process # NoChild /\ ~Alive(c.process) THEN "error" ELSE c.state
BY DEF Polled, Controllers

(* A line changes the state alone, and the notice's being shown.               *)
LEMMA ReportedType ==
    ASSUME TypeOK, NEW line \in Lines
    PROVE  /\ Reported(line) \in Controllers
           /\ Reported(line).process = controller.process /\ Reported(line).queue = controller.queue
           /\ Reported(line).active = controller.active /\ Reported(line).notice = controller.notice
BY DEF Reported, Controllers, Lines, TypeOK

(* What a call raised is an error of the same server.                          *)
LEMMA RaisedType ==
    ASSUME TypeOK
    PROVE  /\ Raised \in Controllers
           /\ Raised.process = controller.process /\ Raised.queue = controller.queue
           /\ Raised.active = controller.active /\ Raised.notice = controller.notice
           /\ Raised.state \in {controller.state, "error"}
BY DEF Raised, Controllers, TypeOK

------------------------------------------------------------------------------
(* Types.                                                                      *)

(* Settings are never the absence of settings.                                 *)
LEMMA Settings == NoConfig \notin Config \cup {Invalid} /\ NoChild \notin Child
BY Values

(* The next step of a call is one of those the worker knows.                   *)
LEMMA TodoStep == TypeOK /\ WorkOK /\ [Next]_vars => work'.todo \in Todos
<1> SUFFICES ASSUME TypeOK, WorkOK, [Next]_vars PROVE work'.todo \in Todos
  OBVIOUS
<1>t. work.todo \in Todos
  BY DEF WorkOK, Todos
<1>k. /\ <<>> \in Todos /\ <<"raised">> \in Todos /\ <<"start">> \in Todos /\ <<"stop">> \in Todos
      /\ <<"stop", "start">> \in Todos /\ <<"stop", "save", "start", "check">> \in Todos
      /\ <<"stop", "restore", "start", "notify">> \in Todos
  BY DEF Todos, Plain, Applying, Saving, GoingBack
<1>w. work \in [todo : Seq(Calls), desired : Config \cup {NoConfig}, previous : Config \cup {NoConfig}]
  BY DEF TypeOK
<1>1. CASE UNCHANGED work
  BY <1>t, <1>1
<1>2. CASE work' = NoWork
  BY <1>k, <1>2 DEF NoWork
<1>3. ASSUME NEW calls \in Todos, Goes(calls) PROVE work'.todo \in Todos
  BY <1>w, <1>3 DEF Goes
<1>4. ASSUME NEW calls \in Todos, NEW desired, NEW previous, Submitted(calls, desired, previous)
      PROVE  work'.todo \in Todos
  BY <1>4 DEF Submitted
<1>5. ASSUME NEW call, Does(call), call # "raised", Goes(Rest) PROVE work'.todo \in Todos
  <2>1. Rest \in Todos
    BY <1>t, <1>5, First, CallKinds DEF Does, Rest
  <2> QED
    BY <1>3, <1>5, <2>1
<1>6. CASE Work
  <2>1. CASE StopAsks \/ StopTerminates \/ StopKills
    BY <1>1, <2>1 DEF StopAsks, StopTerminates, StopKills, desktop
  <2>2. CASE StopEnds \/ AwaitPolls \/ TimedOut \/ LaunchFails \/ Notify
    BY <1>5, <2>2 DEF StopEnds, AwaitPolls, TimedOut, LaunchFails, Notify
  <2>3. CASE Launch
    <3>1. <<"await">> \o Rest \in Todos
      BY <1>t, <2>3, Waits DEF Launch, Does, Rest, Todos, Applying
    <3> QED
      BY <1>3, <2>3, <3>1 DEF Launch
  <2>4. CASE AwaitTimesOut
    <3>1. <<"stop", "timeout">> \o Rest \in Todos
      BY <1>t, <2>4, Waits DEF AwaitTimesOut, Does, Rest, Todos, Applying
    <3> QED
      BY <1>3, <2>4, <3>1 DEF AwaitTimesOut
  <2>5. CASE Save
    BY <1>3, <1>5, <1>k, <2>5 DEF Save
  <2>6. CASE Check
    BY <1>3, <1>k, <2>6 DEF Check
  <2> QED
    BY <1>6, <2>1, <2>2, <2>3, <2>4, <2>5, <2>6 DEF Work
<1>7. CASE Press \/ ApplyFails \/ OpenDesktop \/ Quit \/ TickStops
  BY <1>1, <1>4, <1>k, <1>7 DEF Press, Submit, Apply, ApplyFails, OpenDesktop, Quit, TickStops
<1>8. CASE TickReads \/ TickPolls \/ TickStale \/ TickDies \/ TickCloses \/ DesktopCrashes
  BY <1>2, <1>8 DEF TickDies, TickReads, TickPolls, TickStale, TickRefreshes, TickCloses, DesktopCrashes
<1>9. CASE Server
  BY <1>1, <1>9 DEF Server, ChildGoesOn, ChildLocks, ChildBinds, ChildGivesUp, ChildServes, ChildReports,
     ChildEnds, ChildCrashes, ChildHangs, desktop
<1>10. CASE Others
  BY <1>1, <1>10 DEF Others, Probe, ProbeEnds, HeadlessLocks, HeadlessRefused, HeadlessEnds,
     ConfigureLocks, ConfigureRefused, ConfigureOwns, ConfigureSaves, desktop
<1>11. CASE UNCHANGED vars
  BY <1>1, <1>11 DEF vars, desktop
<1> QED
  BY <1>6, <1>7, <1>8, <1>9, <1>10, <1>11 DEF Next, Desktop, Tick

(* Every step keeps the types.                                                 *)
LEMMA TypeStep == Inv /\ [Next]_vars => TypeOK'
<1> SUFFICES ASSUME Inv, [Next]_vars PROVE TypeOK'
  OBVIOUS
<1>t. TypeOK /\ WorkOK /\ ApplyOK
  BY DEF Inv
<1>todo. work'.todo \in Seq(Calls)
  <2>1. work'.todo \in Todos
    BY <1>t, TodoStep
  <2>2. work'.todo # <<>> => work'.todo \in Seq(Calls)
    BY <2>1, CallKinds
  <2>3. <<>> \in Seq(Calls)
    OBVIOUS
  <2> QED
    BY <2>2, <2>3
<1>bound. MaxFaults \in Nat
  BY Bounds
<1>s. child \in [Child -> Servers] /\ \A s \in Child : child[s] \in Servers
  BY <1>t DEF TypeOK, Servers
<1>c. controller \in Controllers
  BY <1>t DEF TypeOK, Controllers
<1>kind. /\ file' \in Config \cup {Invalid} /\ desktopLock' \in {Free, "desktop", "headless", "configure"}
         /\ serverLock' \in {Free, "headless", "configure"} \cup Child
         /\ child' \in [Child -> Servers] /\ controller' \in Controllers
         /\ window' \in [open : BOOLEAN, pending : BOOLEAN, quitting : BOOLEAN, ticking : BOOLEAN]
         /\ work' \in [todo : Seq(Calls), desired : Config \cup {NoConfig}, previous : Config \cup {NoConfig}]
         /\ headless' \in {"off", "probing", "probed", "serving"}
         /\ configure' \in {"off", "locking", "owning"}
         /\ faults' \in 0 .. MaxFaults
         => TypeOK'
  BY DEF TypeOK, Servers, Controllers
<1>n. NoController \in Controllers /\ NoWindow \in [open : BOOLEAN, pending : BOOLEAN, quitting : BOOLEAN, ticking : BOOLEAN]
  BY DEF NoController, Controllers, NoWindow
<1>f. Fault => faults' \in 0 .. MaxFaults
  BY <1>t, <1>bound DEF Fault, TypeOK
<1>e. <<>> \in Seq(Lines) /\ <<"failed">> \in Seq(Lines) /\ <<"running">> \in Seq(Lines) /\ <<"unhealthy">> \in Seq(Lines)
  BY DEF Lines
<1>1. CASE Server
  <2>1. PICK s \in Child : ChildGoesOn(s) \/ ChildReports(s) \/ ChildCrashes(s) \/ ChildHangs(s)
    BY <1>1 DEF Server
  <2>x. ASSUME NEW lines \in Seq(Lines), Exit(s, lines)
        PROVE  child' \in [Child -> Servers] /\ serverLock' \in {Free, "headless", "configure"} \cup Child
    BY <1>t, <2>x, ExitType
  <2>b. ASSUME NEW stage \in {"locked", "serving", "hung"}, Becomes(s, stage)
        PROVE  child' \in [Child -> Servers]
    BY <1>s, <2>b DEF Becomes, Servers
  <2>2. CASE ChildLocks(s)
    <3>1. CASE serverLock = Free
      <4>1. child' \in [Child -> Servers] /\ serverLock' \in {Free, "headless", "configure"} \cup Child
        BY <2>b, <2>2, <3>1 DEF ChildLocks
      <4> QED
        BY <1>t, <1>kind, <1>c, <2>2, <4>1 DEF ChildLocks, TypeOK, desktop
    <3>2. CASE serverLock # Free
      <4>1. child' \in [Child -> Servers] /\ serverLock' \in {Free, "headless", "configure"} \cup Child
        BY <1>e, <2>x, <2>2, <3>2 DEF ChildLocks
      <4> QED
        BY <1>t, <1>kind, <1>c, <2>2, <4>1 DEF ChildLocks, TypeOK, desktop
    <3> QED
      BY <3>1, <3>2
  <2>3. CASE ChildBinds(s)
    <3>1. child' \in [Child -> Servers]
      <4>1. file \in Config /\ child' = [child EXCEPT ![s] = [@ EXCEPT !.stage = "bound", !.config = file]]
        BY <1>t, <1>s, <2>3 DEF ChildBinds, TypeOK
      <4>2. [child[s] EXCEPT !.stage = "bound", !.config = file] \in Servers
        BY <1>s, <4>1 DEF Servers
      <4> QED
        BY <1>s, <4>1, <4>2
    <3> QED
      BY <1>t, <1>kind, <1>c, <2>3, <3>1 DEF ChildBinds, TypeOK, desktop, locks
  <2>4. CASE ChildGivesUp(s) \/ ChildEnds(s)
    BY <1>t, <1>kind, <1>c, <1>e, <2>x, <2>4 DEF ChildGivesUp, ChildEnds, TypeOK, desktop
  <2>5. CASE ChildServes(s)
    BY <1>t, <1>kind, <1>c, <2>b, <2>5 DEF ChildServes, TypeOK, desktop, locks
  <2>6. CASE ChildReports(s)
    <3>1. PICK line \in {"running", "unhealthy"} : child' = [child EXCEPT ![s].out = Written(s, <<line>>)]
      BY <2>6 DEF ChildReports
    <3>2. Written(s, <<line>>) \in Seq(Lines)
      BY <1>t, <1>e, <3>1, WrittenType
    <3>3. child' \in [Child -> Servers]
      BY <1>s, <3>1, <3>2 DEF Servers
    <3> QED
      BY <1>t, <1>kind, <1>c, <2>6, <3>3 DEF ChildReports, TypeOK, desktop, locks
  <2>7. CASE ChildCrashes(s)
    <3>1. /\ child' \in [Child -> Servers] /\ serverLock' \in {Free, "headless", "configure"} \cup Child
          /\ faults' \in 0 .. MaxFaults
      BY <1>e, <1>f, <2>x, <2>7 DEF ChildCrashes
    <3> QED
      BY <1>t, <1>kind, <1>c, <2>7, <3>1 DEF ChildCrashes, TypeOK, desktop
  <2>8. CASE ChildHangs(s)
    BY <1>t, <1>kind, <1>c, <1>f, <2>b, <2>8 DEF ChildHangs, TypeOK, desktop, locks
  <2> QED
    BY <2>1, <2>2, <2>3, <2>4, <2>5, <2>6, <2>7, <2>8 DEF ChildGoesOn
<1>g. ASSUME NEW calls, Goes(calls)
      PROVE  work' \in [todo : Seq(Calls), desired : Config \cup {NoConfig}, previous : Config \cup {NoConfig}]
  BY <1>t, <1>todo, <1>g DEF Goes, TypeOK
<1>2. CASE StopAsks \/ StopTerminates
  <2>1. controller.process \in Child
    BY <1>t, <1>2 DEF StopAsks, StopTerminates, Running, TypeOK
  <2>2. child' \in [Child -> Servers]
    <3>1. PICK p \in Child : p = controller.process
      BY <2>1
    <3>2. \/ child' = [child EXCEPT ![p].eof = TRUE]
          \/ child' = [child EXCEPT ![p].term = TRUE]
      BY <1>2, <3>1 DEF StopAsks, StopTerminates
    <3> QED
      <4>1. [child[p] EXCEPT !.eof = TRUE] \in Servers /\ [child[p] EXCEPT !.term = TRUE] \in Servers
        BY <1>s DEF Servers
      <4> QED
        BY <1>s, <3>2, <4>1
  <2> QED
    BY <1>t, <1>kind, <1>c, <1>2, <2>2 DEF StopAsks, StopTerminates, TypeOK, desktop, locks
<1>3. CASE StopKills
  <2>1. controller.process \in Child
    BY <1>t, <1>3 DEF StopKills, Running, TypeOK
  <2>2. child' \in [Child -> Servers] /\ serverLock' \in {Free, "headless", "configure"} \cup Child
    BY <1>t, <1>e, <1>3, <2>1, ExitType DEF StopKills
  <2> QED
    BY <1>t, <1>kind, <1>c, <1>3, <2>2 DEF StopKills, TypeOK, desktop
<1>4. CASE StopEnds
  <2>1. child' \in [Child -> Servers]
    BY <1>s, <1>e, <1>4, ExitedType DEF StopEnds
  <2>2. controller' \in Controllers
    BY <1>c, <1>4 DEF StopEnds, Stopped, Controllers
  <2> QED
    BY <1>t, <1>kind, <1>g, <1>4, <2>1, <2>2 DEF StopEnds, TypeOK, locks
<1>5. CASE Launch
  <2>1. PICK s \in Child :
            /\ child' = [child EXCEPT ![s] = [Exited EXCEPT !.stage = "boot"]]
            /\ controller' = [Starting EXCEPT !.process = s, !.queue = Stopped.queue \cup {s}, !.active = file]
    BY <1>5 DEF Launch
  <2>2. child' \in [Child -> Servers]
    BY <1>s, <1>e, <2>1, ExitedType DEF Servers
  <2>3. Starting \in Controllers /\ Stopped.queue = {} /\ file \in Config
    BY <1>t, <1>c, <1>5 DEF Starting, Stopped, Controllers, Launch, TypeOK
  <2>4. controller' \in Controllers
    BY <2>1, <2>3 DEF Controllers
  <2> QED
    BY <1>t, <1>kind, <1>g, <1>5, <2>2, <2>4 DEF Launch, TypeOK, locks
<1>6. CASE LaunchFails
  <2>1. controller' \in Controllers
    BY <1>c, <1>6 DEF LaunchFails, Starting, Controllers
  <2>2. faults' \in 0 .. MaxFaults
    BY <1>t, <1>f, <1>6 DEF LaunchFails, TypeOK
  <2>3. work' \in [todo : Seq(Calls), desired : Config \cup {NoConfig}, previous : Config \cup {NoConfig}]
    BY <1>g, <1>6 DEF LaunchFails
  <2>4. UNCHANGED <<file, desktopLock, serverLock, child, window, headless, configure>>
    BY <1>6 DEF LaunchFails, locks
  <2> QED
    BY <1>t, <1>s, <2>1, <2>2, <2>3, <2>4, <1>kind DEF TypeOK
<1>reads. ASSUME ReadsLines PROVE child' \in [Child -> Servers] /\ controller' \in Controllers
  <2>1. PICK line \in Lines : controller' = Polled(Reported(line))
    BY <1>t, <1>reads, ReadsType
  <2> QED
    BY <1>t, <1>reads, <2>1, ReadsType, ReportedType, PolledType
<1>polls. ASSUME NEW c \in Controllers, ReadsNothing(c) PROVE child' \in [Child -> Servers] /\ controller' \in Controllers
  BY <1>s, <1>polls, PolledType DEF ReadsNothing
<1>7. CASE AwaitPolls
  <2>1. child' \in [Child -> Servers] /\ controller' \in Controllers
    BY <1>c, <1>7, <1>reads, <1>polls DEF AwaitPolls
  <2> QED
    BY <1>t, <1>kind, <1>g, <1>7, <2>1 DEF AwaitPolls, TypeOK, locks
<1>8. CASE AwaitTimesOut
  BY <1>t, <1>s, <1>c, <1>kind, <1>g, <1>8 DEF AwaitTimesOut, TypeOK, locks
<1>9. CASE TimedOut \/ Notify
  <2>1. controller' \in Controllers
    BY <1>c, <1>9 DEF TimedOut, Notify, Controllers
  <2> QED
    BY <1>t, <1>s, <1>kind, <1>g, <1>9, <2>1 DEF TimedOut, Notify, TypeOK, locks
<1>10. CASE Save
  <2>1. file' \in Config \cup {Invalid}
    <3>1. CASE file' = Saved
      <4>1. \/ Does("save") /\ work.todo = <<"save", "start", "check">>
            \/ ~Does("save") /\ work.todo = <<"restore", "start", "notify">>
        BY <1>t, <1>10, CallKinds DEF Save, Does, WorkOK, Todos
      <4>2. work.desired # NoConfig /\ (~Does("save") => work.previous # NoConfig)
        <5>1. <<"save", "start", "check">> \in Applying /\ <<"restore", "start", "notify">> \in GoingBack
          BY DEF Applying, Saving, GoingBack
        <5> QED
          BY <1>t, <4>1, <5>1 DEF ApplyOK, Applying
      <4> QED
        BY <1>t, <3>1, <4>2 DEF Saved, TypeOK
    <3> QED
      BY <1>t, <1>10, <3>1 DEF Save, TypeOK
  <2>2. faults' \in 0 .. MaxFaults
    BY <1>t, <1>f, <1>10 DEF Save, TypeOK
  <2>3. PICK calls : Goes(calls)
    BY <1>10 DEF Save
  <2> QED
    BY <1>t, <1>s, <1>c, <1>kind, <1>g, <1>10, <2>1, <2>2, <2>3 DEF Save, TypeOK, locks
<1>11. CASE Check
  BY <1>t, <1>s, <1>c, <1>kind, <1>g, <1>11 DEF Check, TypeOK, locks
<1>sub. ASSUME NEW calls, NEW desired \in Config \cup {NoConfig}, NEW previous \in Config \cup {NoConfig},
               Submitted(calls, desired, previous)
        PROVE  work' \in [todo : Seq(Calls), desired : Config \cup {NoConfig}, previous : Config \cup {NoConfig}]
  BY <1>todo, <1>sub DEF Submitted
<1>12. CASE OpenDesktop
  BY <1>t, <1>s, <1>c, <1>kind, <1>sub, <1>12 DEF OpenDesktop, TypeOK
<1>13. ASSUME NEW calls, NEW desired \in Config \cup {NoConfig}, NEW previous \in Config \cup {NoConfig},
              Submit(calls, desired, previous)
       PROVE  TypeOK'
  BY <1>t, <1>s, <1>c, <1>kind, <1>sub, <1>13 DEF Submit, TypeOK, locks
<1>14. CASE Press
  <2>1. (IF file = Invalid THEN NoConfig ELSE file) \in Config \cup {NoConfig}
    BY <1>t DEF TypeOK
  <2> QED
    BY <1>13, <1>14, <2>1 DEF Press, Apply
<1>15. CASE Quit
  <2>1. work' \in [todo : Seq(Calls), desired : Config \cup {NoConfig}, previous : Config \cup {NoConfig}]
    BY <1>t, <1>sub, <1>15 DEF Quit, TypeOK
  <2> QED
    BY <1>t, <1>s, <1>c, <1>kind, <1>15, <2>1 DEF Quit, TypeOK, locks
<1>nowork. work' = NoWork => work' \in [todo : Seq(Calls), desired : Config \cup {NoConfig}, previous : Config \cup {NoConfig}]
  BY <1>todo DEF NoWork
<1>16. CASE TickReads \/ TickPolls \/ TickStale
  <2>1. child' \in [Child -> Servers] /\ controller' \in Controllers
    <3>1. CASE ReadsLines
      BY <1>reads, <3>1
    <3>2. CASE ReadsNothing(Raised)
      BY <1>t, <1>polls, <3>2, RaisedType
    <3>3. CASE ReadsStale
      BY <1>s, <1>c, <3>3 DEF ReadsStale, Controllers
    <3> QED
      BY <1>16, <3>1, <3>2, <3>3 DEF TickReads, TickPolls, TickStale, TickRefreshes
  <2> QED
    BY <1>t, <1>kind, <1>nowork, <1>16, <2>1 DEF TickReads, TickPolls, TickStale, TickRefreshes, TypeOK, locks
<1>17. CASE TickStops
  BY <1>t, <1>s, <1>c, <1>kind, <1>sub, <1>17 DEF TickStops, TypeOK, locks
<1>18. CASE TickCloses
  BY <1>t, <1>s, <1>n, <1>kind, <1>nowork, <1>18 DEF TickCloses, TypeOK, Free
<1>19. CASE DesktopCrashes
  <2>1. child' \in [Child -> Servers]
    <3>1. CASE controller.process = NoChild
      BY <1>s, <1>19, <3>1 DEF DesktopCrashes
    <3>2. CASE controller.process # NoChild
      <4>1. controller.process \in Child
        BY <1>t, <3>2 DEF TypeOK
      <4> QED
        BY <1>s, <1>e, <1>19, <3>2, <4>1 DEF DesktopCrashes, Servers
    <3> QED
      BY <3>1, <3>2
  <2> QED
    BY <1>t, <1>n, <1>f, <1>kind, <1>nowork, <1>19, <2>1 DEF DesktopCrashes, TypeOK, Free
<1>22. CASE TickDies
  BY <1>t, <1>s, <1>f, <1>kind, <1>nowork, <1>22, RaisedType DEF TickDies, TypeOK, locks
<1>23. CASE ApplyFails
  BY <1>t, <1>s, <1>c, <1>f, <1>kind, <1>sub, <1>23 DEF ApplyFails, TypeOK, locks
<1>20. CASE Others
  BY <1>t, <1>s, <1>c, <1>kind, <1>20 DEF Others, Probe, ProbeEnds, HeadlessLocks, HeadlessRefused, HeadlessEnds,
     ConfigureLocks, ConfigureRefused, ConfigureOwns, ConfigureSaves, Headless, Released, TypeOK, desktop, locks, Free
<1>21. CASE UNCHANGED vars
  BY <1>t, <1>s, <1>c, <1>kind, <1>21 DEF vars, TypeOK, desktop, locks
<1> QED
  BY <1>1, <1>2, <1>3, <1>4, <1>5, <1>6, <1>7, <1>8, <1>9, <1>10, <1>11, <1>12, <1>14, <1>15, <1>16, <1>17, <1>18,
     <1>19, <1>20, <1>21, <1>22, <1>23 DEF Next, Desktop, Tick, Work

------------------------------------------------------------------------------
(* Safety, one part of the invariant at a time.                                *)

(* What a server's own steps leave alone.                                      *)
LEMMA ServerFrame ==
    Server => UNCHANGED <<file, desktopLock, controller, window, work, headless, configure>>
BY DEF Server, ChildGoesOn, ChildLocks, ChildBinds, ChildGivesUp, ChildServes, ChildReports,
   ChildEnds, ChildCrashes, ChildHangs, desktop, locks

(* What the worker leaves alone; it works while the window is open.            *)
LEMMA WorkFrame ==
    /\ Work => UNCHANGED <<desktopLock, window, headless, configure>>
    /\ ClosedOK /\ Work => window.open
<1>1. Work => UNCHANGED <<desktopLock, window, headless, configure>>
  BY DEF Work, StopAsks, StopTerminates, StopKills, StopEnds, Launch, LaunchFails, AwaitPolls,
     AwaitTimesOut, TimedOut, Save, Check, Notify, desktop, locks
<1>2. Work => work.todo # <<>>
  BY DEF Work, StopAsks, StopTerminates, StopKills, StopEnds, Launch, LaunchFails, AwaitPolls,
     AwaitTimesOut, TimedOut, Save, Check, Notify, Does
<1> QED
  BY <1>1, <1>2 DEF ClosedOK, NoWork

(* What a refresh of the window leaves alone.                                  *)
LEMMA TickFrame ==
    TickReads \/ TickPolls \/ TickStale =>
        /\ UNCHANGED <<file, desktopLock, serverLock, headless, configure, faults>>
        /\ window.ticking /\ ~window.quitting /\ work' = NoWork
        /\ window' = [window EXCEPT !.pending = FALSE]
        /\ ReadsLines \/ ReadsNothing(Raised) \/ ReadsStale
BY DEF TickReads, TickPolls, TickStale, TickRefreshes, locks

(* What the buttons leave alone.                                               *)
LEMMA PressFrame ==
    Press => /\ UNCHANGED <<file, desktopLock, serverLock, child, controller, headless, configure, faults>>
             /\ Idle /\ window' = [window EXCEPT !.pending = TRUE]
BY DEF Press, Apply, Submit, locks

(* What a tick that raises, and an apply that reads no settings, leave alone.  *)
LEMMA FailFrame ==
    /\ TickDies => /\ UNCHANGED <<file, desktopLock, serverLock, child, headless, configure>>
                   /\ window.ticking /\ work' = NoWork /\ controller' = Raised
                   /\ window' = [window EXCEPT !.pending = FALSE, !.ticking = FALSE]
    /\ ApplyFails => /\ UNCHANGED <<file, desktopLock, serverLock, child, controller, headless, configure>>
                     /\ Idle /\ window' = [window EXCEPT !.pending = TRUE]
                     /\ Submitted(<<"raised">>, NoConfig, NoConfig)
BY DEF TickDies, ApplyFails, locks

(* No desktop beside a configure command.                                      *)
LEMMA LocksStep == Inv /\ [Next]_vars => LocksOK'
<1> SUFFICES ASSUME Inv, [Next]_vars PROVE LocksOK'
  OBVIOUS
<1>t. TypeOK /\ LocksOK /\ ClosedOK
  BY DEF Inv
<1>1. CASE UNCHANGED <<desktopLock, window, headless, configure>>
  BY <1>t, <1>1 DEF LocksOK
<1>2. CASE Server \/ Work \/ UNCHANGED vars
  BY <1>1, <1>2, ServerFrame, WorkFrame DEF vars, desktop, locks
<1>3. CASE TickReads \/ TickPolls \/ TickStale
  BY <1>t, <1>3, TickFrame DEF LocksOK, TypeOK
<1>4. CASE Press
  BY <1>t, <1>4, PressFrame DEF LocksOK, TypeOK
<1>9. CASE TickDies \/ ApplyFails
  BY <1>t, <1>9, FailFrame DEF LocksOK, TypeOK
<1>5. CASE OpenDesktop
  BY <1>t, <1>5 DEF OpenDesktop, LocksOK, TypeOK, Free
<1>6. CASE Quit \/ TickStops
  BY <1>t, <1>6 DEF Quit, TickStops, LocksOK, TypeOK, locks
<1>7. CASE TickCloses \/ DesktopCrashes
  <2>1. window.open
    BY <1>t, <1>7 DEF TickCloses, DesktopCrashes, ClosedOK, NoWindow
  <2> QED
    BY <1>t, <1>7, <2>1 DEF TickCloses, DesktopCrashes, LocksOK, NoWindow, Free
<1>8. CASE Others
  BY <1>t, <1>8 DEF Others, Probe, ProbeEnds, HeadlessLocks, HeadlessRefused, HeadlessEnds, ConfigureLocks,
     ConfigureRefused, ConfigureOwns, ConfigureSaves, Headless, Released, LocksOK, TypeOK, desktop, locks, Free
<1> QED
  BY <1>2, <1>3, <1>4, <1>5, <1>6, <1>7, <1>8, <1>9 DEF Next, Desktop, Tick

(* The others leave the desktop alone.                                         *)
LEMMA OthersFrame ==
    Others => UNCHANGED <<child, controller, window, work>>
BY DEF Others, Probe, ProbeEnds, HeadlessLocks, HeadlessRefused, HeadlessEnds,
   ConfigureLocks, ConfigureRefused, ConfigureOwns, ConfigureSaves, desktop

(* Nothing changes runtime.json while a desktop is open but its own apply.     *)
LEMMA OthersSave == LocksOK /\ Others /\ window.open => UNCHANGED file
BY DEF Others, Probe, ProbeEnds, HeadlessLocks, HeadlessRefused, HeadlessEnds,
   ConfigureLocks, ConfigureRefused, ConfigureOwns, ConfigureSaves, LocksOK

(* A closed window has no controller and no worker.                            *)
LEMMA ClosedStep == Inv /\ [Next]_vars => ClosedOK'
<1> SUFFICES ASSUME Inv, [Next]_vars PROVE ClosedOK'
  OBVIOUS
<1>t. TypeOK /\ ClosedOK
  BY DEF Inv
<1>1. CASE Server \/ Others \/ UNCHANGED vars
  BY <1>t, <1>1, ServerFrame, OthersFrame DEF vars, desktop, ClosedOK
<1>2. CASE Work
  BY <1>t, <1>2, WorkFrame DEF ClosedOK
<1>3. CASE TickReads \/ TickPolls \/ TickStale
  BY <1>t, <1>3, TickFrame DEF ClosedOK, TypeOK, NoWindow
<1>4. CASE Press
  BY <1>t, <1>4, PressFrame DEF ClosedOK, TypeOK, Idle
<1>9. CASE TickDies \/ ApplyFails
  <2>1. window.open
    BY <1>t, <1>9, FailFrame DEF ClosedOK, NoWindow, Idle
  <2> QED
    BY <1>t, <1>9, <2>1, FailFrame DEF ClosedOK, TypeOK
<1>5. CASE OpenDesktop
  BY <1>t, <1>5 DEF OpenDesktop, ClosedOK, TypeOK
<1>6. CASE Quit
  BY <1>t, <1>6 DEF Quit, ClosedOK, TypeOK
<1>7. CASE TickStops
  BY <1>t, <1>7 DEF TickStops, ClosedOK, NoController
<1>8. CASE TickCloses \/ DesktopCrashes
  BY <1>t, <1>8 DEF TickCloses, DesktopCrashes, ClosedOK, NoWindow
<1> QED
  BY <1>1, <1>2, <1>3, <1>4, <1>5, <1>6, <1>7, <1>8, <1>9 DEF Next, Desktop, Tick

(* A server reports only what it has read from runtime.json.                   *)
LEMMA ReportsStep == Inv /\ [Next]_vars => ReportsOK'
<1> SUFFICES ASSUME Inv, [Next]_vars PROVE ReportsOK'
  OBVIOUS
<1>t. TypeOK /\ ReportsOK
  BY DEF Inv
<1> DEFINE OK(c) == /\ c.stage \in {"bound", "serving"} => c.config # NoConfig
                    /\ c.stage # "exited" /\ c.config = NoConfig => c.out = <<>>
<1>s. child \in [Child -> Servers] /\ \A s \in Child : child[s] \in Servers /\ OK(child[s])
  BY <1>t DEF TypeOK, Servers, ReportsOK, Alive
<1>k. (\A s \in Child : OK(child'[s])) => ReportsOK'
  BY DEF ReportsOK, Alive
<1>1. CASE UNCHANGED child
  BY <1>s, <1>k, <1>1
<1>2. ASSUME NEW s \in Child, NEW x, OK(x), child' = [child EXCEPT ![s] = x] PROVE ReportsOK'
  BY <1>s, <1>k, <1>2
<1>3. ASSUME NEW s \in Child, NEW lines, Exit(s, lines) PROVE ReportsOK'
  <2>1. child' = [child EXCEPT ![s] = [Exited EXCEPT !.out = Written(s, lines)]]
    BY <1>3 DEF Exit
  <2>2. OK([Exited EXCEPT !.out = Written(s, lines)])
    BY DEF Exited
  <2> QED
    BY <1>2, <2>1, <2>2
<1>4. CASE Server
  <2>1. PICK s \in Child : ChildGoesOn(s) \/ ChildReports(s) \/ ChildCrashes(s) \/ ChildHangs(s)
    BY <1>4 DEF Server
  <2>2. CASE ChildLocks(s)
    <3>1. CASE serverLock = Free
      <4>1. child' = [child EXCEPT ![s] = [@ EXCEPT !.stage = "locked"]] /\ child[s].stage = "boot"
        BY <2>2, <3>1 DEF ChildLocks, Becomes
      <4>2. OK([child[s] EXCEPT !.stage = "locked"])
        BY <1>s, <4>1 DEF Servers
      <4> QED
        BY <1>2, <4>1, <4>2
    <3> QED
      BY <1>3, <2>2, <3>1 DEF ChildLocks
  <2>3. CASE ChildBinds(s)
    <3>1. child' = [child EXCEPT ![s] = [@ EXCEPT !.stage = "bound", !.config = file]] /\ file # NoConfig
      BY <1>t, <2>3, Settings DEF ChildBinds, TypeOK
    <3>2. OK([child[s] EXCEPT !.stage = "bound", !.config = file])
      BY <1>s, <3>1 DEF Servers
    <3> QED
      BY <1>2, <3>1, <3>2
  <2>4. CASE ChildGivesUp(s) \/ ChildEnds(s) \/ ChildCrashes(s)
    BY <1>3, <2>4 DEF ChildGivesUp, ChildEnds, ChildCrashes
  <2>5. CASE ChildServes(s)
    <3>1. child' = [child EXCEPT ![s] = [@ EXCEPT !.stage = "serving"]] /\ child[s].stage = "bound"
      BY <2>5 DEF ChildServes, Becomes
    <3>2. OK([child[s] EXCEPT !.stage = "serving"])
      BY <1>s, <3>1 DEF Servers
    <3> QED
      BY <1>2, <3>1, <3>2
  <2>6. CASE ChildReports(s)
    <3>1. PICK line : child' = [child EXCEPT ![s] = [@ EXCEPT !.out = Written(s, <<line>>)]] /\ child[s].stage = "serving"
      BY <2>6 DEF ChildReports
    <3>2. OK([child[s] EXCEPT !.out = Written(s, <<line>>)])
      BY <1>s, <3>1 DEF Servers
    <3> QED
      BY <1>2, <3>1, <3>2
  <2>7. CASE ChildHangs(s)
    <3>1. child' = [child EXCEPT ![s] = [@ EXCEPT !.stage = "hung"]] /\ child[s].stage # "exited"
      BY <2>7 DEF ChildHangs, Becomes, Alive
    <3>2. OK([child[s] EXCEPT !.stage = "hung"])
      BY <1>s, <3>1 DEF Servers
    <3> QED
      BY <1>2, <3>1, <3>2
  <2> QED
    BY <2>1, <2>2, <2>3, <2>4, <2>5, <2>6, <2>7 DEF ChildGoesOn
<1>p. controller.process \in Child \cup {NoChild}
  BY <1>t DEF TypeOK
<1>5. CASE StopAsks \/ StopTerminates
  <2>1. PICK p \in Child : p = controller.process
    BY <1>p, <1>5 DEF StopAsks, StopTerminates, Running
  <2>2. \/ child' = [child EXCEPT ![p] = [@ EXCEPT !.eof = TRUE]]
        \/ child' = [child EXCEPT ![p] = [@ EXCEPT !.term = TRUE]]
    BY <1>5, <2>1 DEF StopAsks, StopTerminates
  <2>3. OK([child[p] EXCEPT !.eof = TRUE]) /\ OK([child[p] EXCEPT !.term = TRUE])
    BY <1>s DEF Servers
  <2> QED
    BY <1>2, <2>2, <2>3
<1>6. CASE StopKills
  BY <1>3, <1>p, <1>6 DEF StopKills, Running
<1>7. CASE StopEnds
  <2>1. OK(Exited)
    BY DEF Exited
  <2> QED
    BY <1>s, <1>k, <1>7, <2>1 DEF StopEnds
<1>8. CASE Launch
  <2>1. PICK s \in Child : child' = [child EXCEPT ![s] = [Exited EXCEPT !.stage = "boot"]]
    BY <1>8 DEF Launch
  <2>2. OK([Exited EXCEPT !.stage = "boot"])
    BY DEF Exited
  <2> QED
    BY <1>2, <2>1, <2>2
<1>9. CASE ReadsLines
  <2>1. PICK s \in controller.queue : child' = [child EXCEPT ![s] = [@ EXCEPT !.out = child'[s].out]]
    BY <1>t, <1>9, ReadsType
  <2>2. s \in Child /\ (child[s].out = <<>> => child'[s].out = <<>>)
    BY <1>t, <1>9, ReadsType DEF TypeOK
  <2>3. PICK out : out = child'[s].out
    OBVIOUS
  <2>4. OK([child[s] EXCEPT !.out = out])
    BY <1>s, <2>2, <2>3 DEF Servers
  <2> QED
    BY <1>2, <2>1, <2>2, <2>3, <2>4
<1>10. CASE Work
  BY <1>1, <1>5, <1>6, <1>7, <1>8, <1>9, <1>10 DEF Work, LaunchFails, AwaitPolls, AwaitTimesOut, TimedOut,
     Save, Check, Notify, ReadsNothing
<1>11. CASE TickReads \/ TickPolls \/ TickStale
  BY <1>1, <1>9, <1>11, TickFrame DEF ReadsNothing, ReadsStale
<1>12. CASE DesktopCrashes
  <2>1. CASE controller.process = NoChild
    BY <1>1, <1>12, <2>1 DEF DesktopCrashes
  <2>2. CASE controller.process # NoChild
    <3>1. PICK p \in Child : p = controller.process
      BY <1>p, <2>2
    <3>2. child' = [child EXCEPT ![p] = [@ EXCEPT !.eof = TRUE, !.out = <<>>]]
      BY <1>12, <2>2, <3>1 DEF DesktopCrashes
    <3>3. OK([child[p] EXCEPT !.eof = TRUE, !.out = <<>>])
      BY <1>s DEF Servers
    <3> QED
      BY <1>2, <3>2, <3>3
  <2> QED
    BY <2>1, <2>2
<1>13. CASE Press \/ OpenDesktop \/ Quit \/ TickStops \/ TickCloses \/ Others \/ UNCHANGED vars
            \/ TickDies \/ ApplyFails
  BY <1>1, <1>13, PressFrame, OthersFrame, FailFrame DEF OpenDesktop, Quit, TickStops, TickCloses, vars
<1> QED
  BY <1>4, <1>10, <1>11, <1>12, <1>13 DEF Next, Desktop, Tick

(* A server's step reads runtime.json, or ends it, or leaves what it has read. *)
LEMMA ServerReads ==
    ASSUME TypeOK, Server, NEW s \in Child
    PROVE  \/ child'[s] = child[s]
           \/ child'[s].stage = "exited" /\ child'[s].config = NoConfig
           \/ /\ child[s].stage # "exited"
              /\ child'[s].config \in {child[s].config, file}
              /\ child'[s].config = NoConfig => child[s].config = NoConfig
<1>1. PICK c \in Child : ChildGoesOn(c) \/ ChildReports(c) \/ ChildCrashes(c) \/ ChildHangs(c)
  BY DEF Server
<1>s. child \in [Child -> Servers] /\ child[s] \in Servers /\ child[c] \in Servers
  BY DEF TypeOK, Servers
<1>f. NoConfig # file
  BY Settings DEF TypeOK
<1>2. ASSUME NEW lines, Exit(c, lines)
      PROVE  child'[s] = child[s] \/ (child'[s].stage = "exited" /\ child'[s].config = NoConfig)
  BY <1>s, <1>2 DEF Exit, Exited
<1>3. ASSUME NEW stage, Becomes(c, stage) PROVE child'[s].config = child[s].config /\ (s # c => child'[s] = child[s])
  BY <1>s, <1>3 DEF Becomes, Servers
<1>4. CASE ChildLocks(c)
  BY <1>2, <1>3, <1>4 DEF ChildLocks
<1>5. CASE ChildBinds(c)
  <2>1. /\ child' = [child EXCEPT ![c] = [@ EXCEPT !.stage = "bound", !.config = file]]
        /\ child[c].stage = "locked"
    BY <1>5 DEF ChildBinds
  <2> QED
    BY <1>s, <1>f, <2>1 DEF Servers
<1>6. CASE ChildGivesUp(c) \/ ChildEnds(c) \/ ChildCrashes(c)
  BY <1>2, <1>6 DEF ChildGivesUp, ChildEnds, ChildCrashes
<1>7. CASE ChildServes(c) \/ ChildHangs(c)
  BY <1>3, <1>7 DEF ChildServes, ChildHangs, Alive
<1>8. CASE ChildReports(c)
  <2>1. /\ \E line : child' = [child EXCEPT ![c] = [@ EXCEPT !.out = Written(c, <<line>>)]]
        /\ child[c].stage = "serving"
    BY <1>8 DEF ChildReports
  <2> QED
    BY <1>s, <2>1 DEF Servers
<1> QED
  BY <1>1, <1>4, <1>5, <1>6, <1>7, <1>8 DEF ChildGoesOn

(* The desktop's server has read what the controller read before it.           *)
LEMMA ServedStep == Inv /\ [Next]_vars => ServedOK'
<1> SUFFICES ASSUME Inv, [Next]_vars PROVE ServedOK'
  OBVIOUS
<1>t. TypeOK /\ WorkOK /\ LocksOK /\ ClosedOK /\ ReportsOK /\ ServedOK
  BY DEF Inv
<1>s. child \in [Child -> Servers] /\ \A s \in Child : child[s] \in Servers
  BY <1>t DEF TypeOK, Servers
<1>c. controller \in Controllers
  BY <1>t DEF TypeOK, Controllers
<1>p. NoChild \notin Child /\ file # NoConfig
  BY <1>t, Settings DEF TypeOK
<1>1. ASSUME UNCHANGED <<file, controller>>,
             controller.process # NoChild =>
                 LET p == controller.process IN
                 \/ child'[p] = child[p]
                 \/ child'[p].stage = "exited" /\ child'[p].config = NoConfig
                 \/ /\ child[p].stage # "exited"
                    /\ child'[p].config \in {child[p].config, file}
                    /\ child'[p].config = NoConfig => child[p].config = NoConfig
      PROVE  ServedOK'
  BY <1>t, <1>1 DEF ServedOK, Running, Alive
<1>2. CASE UNCHANGED <<file, controller, child>>
  BY <1>1, <1>2
<1>3. CASE Server
  <2>1. controller.process # NoChild => controller.process \in Child
    BY <1>t DEF TypeOK
  <2> QED
    BY <1>t, <1>1, <1>3, <2>1, ServerReads, ServerFrame
<1>4. CASE StopAsks \/ StopTerminates
  <2>1. PICK p \in Child : p = controller.process
    BY <1>c, <1>4 DEF StopAsks, StopTerminates, Running, Controllers
  <2>2. \/ child' = [child EXCEPT ![p] = [@ EXCEPT !.eof = TRUE]]
        \/ child' = [child EXCEPT ![p] = [@ EXCEPT !.term = TRUE]]
    BY <1>4, <2>1 DEF StopAsks, StopTerminates
  <2>3. child'[p].stage = child[p].stage /\ child'[p].config = child[p].config
    BY <1>s, <2>2 DEF Servers
  <2>4. UNCHANGED <<file, controller>> /\ child[p].stage # "exited"
    BY <1>4, <2>1 DEF StopAsks, StopTerminates, desktop, Running, Alive
  <2> QED
    BY <1>1, <2>1, <2>3, <2>4
<1>5. CASE StopKills
  <2>1. controller.process \in Child
    BY <1>c, <1>5 DEF StopKills, Running, Controllers
  <2>2. child'[controller.process].stage = "exited" /\ child'[controller.process].config = NoConfig
    BY <1>s, <1>5, <2>1 DEF StopKills, Exit, Exited
  <2> QED
    BY <1>1, <1>5, <2>2 DEF StopKills, desktop
<1>6. CASE StopEnds
  BY <1>c, <1>6 DEF StopEnds, Stopped, ServedOK, Controllers
<1>7. CASE Launch
  <2>1. PICK s \in Child :
            /\ child' = [child EXCEPT ![s] = [Exited EXCEPT !.stage = "boot"]]
            /\ controller' = [Starting EXCEPT !.process = s, !.queue = Stopped.queue \cup {s}, !.active = file]
    BY <1>7 DEF Launch
  <2>2. /\ controller'.process = s /\ controller'.queue = {s} /\ controller'.active = file
        /\ controller'.state = "starting"
    BY <1>c, <2>1 DEF Starting, Stopped, Controllers
  <2>3. child'[s].config = NoConfig
    BY <1>s, <2>1 DEF Exited
  <2> QED
    BY <1>7, <2>2, <2>3 DEF Launch, ServedOK
<1>8. CASE LaunchFails
  <2>1. controller.process = NoChild /\ controller'.process = NoChild /\ controller'.queue = controller.queue
        /\ controller'.state = "error"
    BY <1>c, <1>8 DEF LaunchFails, Starting, Controllers
  <2> QED
    BY <1>t, <2>1 DEF ServedOK
<1>9. ASSUME ReadsLines, UNCHANGED file PROVE ServedOK'
  <2>1. PICK s \in controller.queue, line \in Lines :
            /\ child[s].out # <<>>
            /\ child' = [child EXCEPT ![s] = [@ EXCEPT !.out = child'[s].out]]
            /\ controller' = Polled(Reported(line))
    BY <1>t, <1>9, ReadsType
  <2>2. s \in Child /\ s = controller.process
    BY <1>t, <2>1 DEF ServedOK, TypeOK
  <2>3. child'[s].stage = child[s].stage /\ child'[s].config = child[s].config
    <3>1. PICK out : out = child'[s].out
      OBVIOUS
    <3> QED
      BY <1>s, <2>1, <2>2, <3>1 DEF Servers
  <2>4. controller'.process = s /\ controller'.queue = controller.queue /\ controller'.active = controller.active
    BY <1>t, <2>1, <2>2, ReportedType, PolledType
  <2>5. child[s].stage # "exited" => child[s].config # NoConfig
    BY <1>t, <2>1, <2>2 DEF ReportsOK, Alive
  <2> QED
    BY <1>t, <1>p, <1>9, <2>2, <2>3, <2>4, <2>5 DEF ServedOK, Running, Alive
<1>10. ASSUME NEW c \in Controllers, ReadsNothing(c), UNCHANGED file,
              c.process = controller.process, c.queue = controller.queue, c.active = controller.active,
              c.state \in {controller.state, "error"}
       PROVE  ServedOK'
  <2>1. /\ controller'.process = controller.process /\ controller'.queue = controller.queue
        /\ controller'.active = controller.active /\ controller'.state \in {controller.state, "error"}
        /\ child' = child
    BY <1>10, PolledType DEF ReadsNothing
  <2> QED
    BY <1>t, <1>10, <2>1 DEF ServedOK, Running, Alive
<1>11. CASE AwaitPolls
  BY <1>c, <1>9, <1>10, <1>11 DEF AwaitPolls
<1>12. CASE TimedOut \/ Notify
  <2>1. /\ controller'.process = controller.process /\ controller'.queue = controller.queue
        /\ controller'.active = controller.active /\ controller'.state \in {controller.state, "error"}
        /\ UNCHANGED <<child, file>>
    BY <1>c, <1>12 DEF TimedOut, Notify, Controllers
  <2> QED
    BY <1>t, <2>1 DEF ServedOK, Running, Alive
<1>13. CASE Save
  <2>1. controller.process = NoChild /\ controller' = controller
    BY <1>t, <1>13 DEF Save, WorkOK
  <2> QED
    BY <1>t, <2>1 DEF ServedOK
<1>14. CASE TickReads \/ TickPolls \/ TickStale
  <2>1. CASE ReadsLines
    BY <1>9, <1>14, <2>1, TickFrame
  <2>2. CASE ReadsNothing(Raised)
    BY <1>t, <1>10, <1>14, <2>2, TickFrame, RaisedType
  <2>3. CASE ReadsStale
    <3>1. /\ controller'.process = controller.process /\ controller'.queue = controller.queue
          /\ controller'.active = controller.active /\ controller'.state = "error"
          /\ UNCHANGED <<child, file>>
      BY <1>c, <1>14, <2>3, TickFrame DEF ReadsStale, Controllers
    <3> QED
      BY <1>t, <3>1 DEF ServedOK
  <2> QED
    BY <1>14, <2>1, <2>2, <2>3, TickFrame
<1>18. CASE TickDies
  BY <1>t, <1>18, FailFrame, RaisedType DEF ServedOK, Running, Alive
<1>15. CASE TickCloses \/ DesktopCrashes
  BY <1>15 DEF TickCloses, DesktopCrashes, NoController, ServedOK
<1>16. CASE Others
  <2>1. CASE window.open
    BY <1>t, <1>2, <1>16, <2>1, OthersFrame, OthersSave
  <2>2. CASE ~window.open
    BY <1>t, <1>16, <2>2, OthersFrame DEF ClosedOK, NoController, ServedOK
  <2> QED
    BY <2>1, <2>2
<1>17. CASE AwaitTimesOut \/ Check \/ Press \/ ApplyFails \/ OpenDesktop \/ Quit \/ TickStops \/ UNCHANGED vars
  BY <1>2, <1>17, PressFrame, FailFrame DEF AwaitTimesOut, Check, OpenDesktop, Quit, TickStops, vars, desktop
<1> QED
  BY <1>3, <1>4, <1>5, <1>6, <1>7, <1>8, <1>11, <1>12, <1>13, <1>14, <1>15, <1>16, <1>17, <1>18
  DEF Next, Desktop, Tick, Work

(* The worker saves settings and starts a server only when none is left.       *)
LEMMA WorkStep == Inv /\ [Next]_vars => WorkOK'
<1> SUFFICES ASSUME Inv, [Next]_vars PROVE WorkOK'
  OBVIOUS
<1>t. TypeOK /\ WorkOK /\ ClosedOK
  BY DEF Inv
<1>todo. work.todo \in Todos /\ work'.todo \in {<<>>, <<"raised">>} \cup Plain \cup Applying
  BY <1>t, TodoStep DEF WorkOK, Todos
<1>w. work \in [todo : Seq(Calls), desired : Config \cup {NoConfig}, previous : Config \cup {NoConfig}]
  BY <1>t DEF TypeOK
<1>k. (work'.todo # <<>> /\ Head(work'.todo) \in {"save", "restore", "start"} => controller'.process = NoChild)
          => WorkOK'
  BY <1>todo DEF WorkOK, Does
<1>1. CASE work' = work /\ controller'.process = controller.process
  BY <1>t, <1>k, <1>1 DEF WorkOK, Does
<1>2. CASE work'.todo = <<>>
  BY <1>k, <1>2
<1>3. ASSUME NEW calls, work'.todo = calls, Head(calls) \in {"stop", "await", "raised"} PROVE WorkOK'
  BY <1>k, <1>3
<1>4. ASSUME NEW call \in Calls \ {"raised"}, Does(call), Goes(Rest),
             call \in {"stop", "save", "restore"} => controller'.process = NoChild
      PROVE  WorkOK'
  <2>1. work'.todo = Tail(work.todo) /\ work.todo # <<>> /\ work.todo # <<"raised">> /\ Head(work.todo) = call
    BY <1>w, <1>4, First DEF Goes, Rest, Does
  <2>2. work'.todo # <<>> /\ Head(work'.todo) \in {"save", "restore", "start"} => call \in {"stop", "save", "restore"}
    BY <1>todo, <2>1, GoesOn
  <2> QED
    BY <1>k, <1>4, <2>2
<1>5. CASE StopAsks \/ StopTerminates \/ StopKills
  BY <1>1, <1>5 DEF StopAsks, StopTerminates, StopKills, desktop
<1>6. CASE StopEnds
  <2>1. controller'.process = NoChild
    BY <1>t, <1>6 DEF StopEnds, Stopped, TypeOK
  <2> QED
    BY <1>4, <1>6, <2>1 DEF StopEnds, Calls
<1>7. CASE AwaitPolls \/ TimedOut \/ LaunchFails \/ Notify
  BY <1>4, <1>7 DEF AwaitPolls, TimedOut, LaunchFails, Notify, Calls
<1>8. CASE Launch
  <2>1. Head(work'.todo) \in {"await", "stop"}
    BY <1>todo, <1>w, <1>8, Waits DEF Launch, Goes, Does, Rest
  <2> QED
    BY <1>3, <2>1
<1>9. CASE AwaitTimesOut
  <2>1. Head(work'.todo) \in {"await", "stop"}
    BY <1>todo, <1>w, <1>9, Waits DEF AwaitTimesOut, Goes, Does, Rest
  <2> QED
    BY <1>3, <2>1
<1>10. CASE Save
  <2>1. controller'.process = NoChild
    BY <1>t, <1>10 DEF Save, WorkOK
  <2>2. CASE Goes(Rest)
    BY <1>4, <1>10, <2>1, <2>2 DEF Save, Calls
  <2>3. CASE Goes(<<"raised">>)
    BY <1>w, <1>3, <2>3, First DEF Goes
  <2> QED
    BY <1>10, <2>2, <2>3 DEF Save
<1>11. CASE Check
  BY <1>w, <1>2, <1>3, <1>11, First DEF Check, Goes
<1>12. CASE Press
  BY <1>3, <1>12, First DEF Press, Apply, Submit, Submitted
<1>13. CASE OpenDesktop
  BY <1>t, <1>k, <1>13 DEF OpenDesktop, ClosedOK, NoController
<1>14. CASE Quit
  BY <1>1, <1>3, <1>14, First DEF Quit, Submitted
<1>15. CASE TickStops
  BY <1>3, <1>15, First DEF TickStops, Submitted
<1>18. CASE ApplyFails
  BY <1>3, <1>18, FailFrame, First DEF Submitted
<1>16. CASE TickReads \/ TickPolls \/ TickStale \/ TickDies \/ TickCloses \/ DesktopCrashes
  BY <1>2, <1>16, TickFrame, FailFrame DEF TickCloses, DesktopCrashes, NoWork
<1>17. CASE Server \/ Others \/ UNCHANGED vars
  BY <1>1, <1>17, ServerFrame, OthersFrame DEF vars, desktop
<1> QED
  BY <1>5, <1>6, <1>7, <1>8, <1>9, <1>10, <1>11, <1>12, <1>13, <1>14, <1>15, <1>16, <1>17, <1>18
  DEF Next, Desktop, Tick, Work

(* An apply goes from the settings it wants to these, or back to the previous  *)
(* ones, and never tells the one for the other.                                *)
LEMMA ApplyStep == Inv /\ [Next]_vars => ApplyOK'
<1> SUFFICES ASSUME Inv, [Next]_vars PROVE ApplyOK'
  OBVIOUS
<1>t. TypeOK /\ WorkOK /\ ClosedOK /\ LocksOK /\ ApplyOK
  BY DEF Inv
<1>todo. work.todo \in Todos /\ work'.todo \in Todos
  BY <1>t, TodoStep DEF WorkOK, Todos
<1>w. work \in [todo : Seq(Calls), desired : Config \cup {NoConfig}, previous : Config \cup {NoConfig}]
  BY <1>t DEF TypeOK
<1>c. controller \in Controllers
  BY <1>t DEF TypeOK, Controllers
<1>1. CASE UNCHANGED <<file, controller, window, work>>
  BY <1>t, <1>1 DEF ApplyOK, ApplyRestores, Does
<1>2. CASE work'.desired = NoConfig /\ work'.todo \notin Applying
  BY <1>2 DEF ApplyOK, ApplyRestores, Applying
<1>3. CASE work' = NoWork
  BY <1>2, <1>3, Kinds DEF NoWork
<1>plain. {<<"start">>, <<"stop">>, <<"stop", "start">>} \cap Applying = {}
  <2>1. {<<"start">>, <<"stop">>, <<"stop", "start">>} \subseteq Plain
    BY DEF Plain
  <2> QED
    BY <2>1, Kinds
<1>4. ASSUME NEW calls \in {<<"start">>, <<"stop">>, <<"stop", "start">>}, Submitted(calls, NoConfig, NoConfig)
      PROVE  ApplyOK'
  BY <1>2, <1>4, <1>plain DEF Submitted
<1>5. CASE Server \/ UNCHANGED vars
  BY <1>1, <1>5, ServerFrame DEF vars, desktop
<1>6. CASE Others
  <2>1. CASE window.open
    BY <1>t, <1>1, <1>6, <2>1, OthersFrame, OthersSave
  <2>2. CASE ~window.open
    BY <1>t, <1>3, <1>6, <2>2, OthersFrame DEF ClosedOK
  <2> QED
    BY <2>1, <2>2
<1>7. CASE TickReads \/ TickPolls \/ TickStale \/ TickDies \/ TickCloses \/ DesktopCrashes
  BY <1>3, <1>7, TickFrame, FailFrame DEF TickCloses, DesktopCrashes
<1>8. CASE Press
  <2>1. ASSUME NEW desired \in Config, Apply(desired) PROVE ApplyOK'
    <3>1. work'.todo \in Saving /\ work'.desired \in Config
      BY <2>1 DEF Apply, Submit, Submitted, Saving
    <3> QED
      BY <3>1, Kinds, Settings DEF ApplyOK, ApplyRestores, Applying
  <2> QED
    BY <1>4, <1>8, <2>1 DEF Press, Submit
<1>23. CASE ApplyFails
  BY <1>2, <1>23, FailFrame, Kinds DEF Submitted
<1>9. CASE OpenDesktop \/ TickStops
  BY <1>4, <1>9 DEF OpenDesktop, TickStops
<1>10. CASE Quit
  <2>1. CASE Idle
    BY <1>4, <1>10, <2>1 DEF Quit
  <2>2. CASE ~Idle
    <3>1. work' = work /\ file' = file /\ controller' = controller /\ window.open
      BY <1>10, <2>2 DEF Quit
    <3> QED
      BY <1>t, <3>1 DEF ApplyOK, ApplyRestores, Does
  <2> QED
    BY <2>1, <2>2
<1>g. ASSUME NEW calls, Goes(calls)
      PROVE  work'.todo = calls /\ work'.desired = work.desired /\ work'.previous = work.previous
  BY <1>w, <1>g DEF Goes
<1>11. ASSUME NEW call \in Calls, call \in {"stop", "start", "await", "timeout"}, Does(call), Goes(Rest), file' = file,
              IF call = "start" THEN ~controller'.notice ELSE controller'.notice = controller.notice
       PROVE  ApplyOK'
  <2>1. /\ work'.todo = Tail(work.todo) /\ work.todo # <<>> /\ Head(work.todo) = call /\ work.todo # <<"raised">>
        /\ work'.desired = work.desired /\ work'.previous = work.previous
    BY <1>g, <1>11, First DEF Rest, Does
  <2>2. /\ work'.todo \in Plain => work.todo \in Plain
        /\ work'.todo \in Saving => work.todo \in Saving
        /\ work'.todo \in Trying => work.todo \in Trying
        /\ work'.todo \in GoingBack => work.todo \in GoingBack
        /\ work'.todo \in Again => work.todo \in Again
        /\ work'.todo = <<>> => work.todo \in Plain
    BY <1>11, <1>todo, <2>1, GoesOn
  <2>k. call # "start" => ~Does("start")
    BY <2>1 DEF Does
  <2>3. work'.todo \in Applying => work'.desired # NoConfig
    BY <1>t, <2>1, <2>2 DEF ApplyOK, Applying
  <2>4. work'.todo \in GoingBack => work'.previous # NoConfig
    BY <1>t, <2>1, <2>2 DEF ApplyOK
  <2>5. work'.desired # NoConfig =>
           /\ work'.todo \notin {<<>>}
           /\ work'.todo \in Trying => file' = work'.desired /\ ~controller'.notice
           /\ work'.todo \in Again => file' = work'.previous
    BY <1>t, <1>11, <2>1, <2>2, <2>k DEF ApplyOK
  <2>6. work'.desired # NoConfig => work'.todo \notin Plain
    <3>1. work'.todo \in Plain => work.todo \in Plain
      BY <2>2
    <3> QED
      BY <1>t, <2>1, <3>1 DEF ApplyOK
  <2> QED
    BY <2>3, <2>4, <2>5, <2>6 DEF ApplyOK, ApplyRestores
<1>12. ASSUME NEW call \in {"start", "await"}, Does(call),
              NEW next \in {<<"await">> \o Rest, <<"stop", "timeout">> \o Rest}, Goes(next), file' = file,
              IF call = "start" THEN ~controller'.notice ELSE controller'.notice = controller.notice
       PROVE  ApplyOK'
  <2>1. /\ work'.todo = next /\ work'.desired = work.desired /\ work'.previous = work.previous
        /\ work.todo # <<>> /\ Head(work.todo) = call
    BY <1>g, <1>12 DEF Does
  <2>2. /\ work'.todo \in Plain => work.todo \in Plain
        /\ work'.todo \in Trying => work.todo \in Trying
        /\ work'.todo \in Again => work.todo \in Again
        /\ work'.todo \notin Saving /\ work'.todo \notin GoingBack /\ work'.todo # <<>>
    <3>1. /\ next \in {<<"await">> \o Tail(work.todo), <<"stop", "timeout">> \o Tail(work.todo)}
          /\ Head(work.todo) \in {"start", "await"}
      BY <1>12, <2>1 DEF Rest
    <3>2. PICK todo \in Todos : todo = work.todo
      BY <1>todo
    <3>3. todo # <<>> /\ Head(todo) \in {"start", "await"}
      BY <2>1, <3>1, <3>2
    <3>4. next \in {<<"await">> \o Tail(todo), <<"stop", "timeout">> \o Tail(todo)}
      BY <3>1, <3>2
    <3>5. /\ next \in Plain => todo \in Plain
          /\ next \in Trying => todo \in Trying
          /\ next \in Again => todo \in Again
          /\ next \notin Saving /\ next \notin GoingBack /\ next # <<>>
      <4>1. CASE next = <<"await">> \o Tail(todo)
        BY <3>3, <4>1, Waits
      <4>2. CASE next = <<"stop", "timeout">> \o Tail(todo)
        BY <3>3, <4>2, Waits
      <4> QED
        BY <3>4, <4>1, <4>2
    <3> QED
      BY <2>1, <3>2, <3>5
  <2>k. call # "start" => ~Does("start")
    BY <2>1 DEF Does
  <2>3. work'.todo \in Applying => work'.desired # NoConfig
    BY <1>t, <2>1, <2>2 DEF ApplyOK, Applying
  <2>4. work'.desired # NoConfig =>
           /\ work'.todo \notin Plain
           /\ work'.todo \in Trying => file' = work'.desired /\ ~controller'.notice
           /\ work'.todo \in Again => file' = work'.previous
    BY <1>t, <1>12, <2>1, <2>2, <2>k DEF ApplyOK
  <2> QED
    BY <2>2, <2>3, <2>4 DEF ApplyOK, ApplyRestores
<1>13. CASE StopAsks \/ StopTerminates \/ StopKills
  BY <1>1, <1>13 DEF StopAsks, StopTerminates, StopKills, desktop
<1>14. CASE StopEnds
  <2>1. controller'.notice = controller.notice /\ file' = file
    BY <1>c, <1>14 DEF StopEnds, Stopped, Controllers
  <2> QED
    BY <1>11, <1>14, <2>1 DEF StopEnds, Calls
<1>15. CASE Launch
  <2>1. ~controller'.notice /\ file' = file
    BY <1>c, <1>15 DEF Launch, Starting, Controllers
  <2> QED
    BY <1>12, <1>15, <2>1 DEF Launch
<1>16. CASE LaunchFails
  <2>1. ~controller'.notice /\ file' = file
    BY <1>c, <1>16 DEF LaunchFails, Starting, Controllers
  <2> QED
    BY <1>11, <1>16, <2>1 DEF LaunchFails, Calls
<1>17. CASE AwaitPolls
  <2>1. controller'.notice = controller.notice
    <3>1. CASE ReadsLines
      BY <1>t, <3>1, ReadsType, ReportedType, PolledType
    <3>2. CASE ReadsNothing(controller)
      BY <1>c, <3>2, PolledType DEF ReadsNothing
    <3> QED
      BY <1>17, <3>1, <3>2 DEF AwaitPolls
  <2> QED
    BY <1>11, <1>17, <2>1 DEF AwaitPolls, Calls
<1>18. CASE AwaitTimesOut
  BY <1>12, <1>18 DEF AwaitTimesOut
<1>19. CASE TimedOut
  <2>1. controller'.notice = controller.notice
    BY <1>c, <1>19 DEF TimedOut, Controllers
  <2> QED
    BY <1>11, <1>19, <2>1 DEF TimedOut, Calls
<1>20. CASE Save
  <2>1. CASE Goes(<<"raised">>)
    <3>1. work'.todo = <<"raised">>
      BY <1>g, <2>1
    <3>2. <<"raised">> \notin Plain \cup Applying /\ <<"raised">> # <<>>
      BY Kinds
    <3> QED
      BY <3>1, <3>2 DEF ApplyOK, ApplyRestores, Applying
  <2>2. CASE file' = Saved /\ Goes(Rest)
    <3>1. \/ Does("save") /\ work.todo = <<"save", "start", "check">>
          \/ ~Does("save") /\ work.todo = <<"restore", "start", "notify">>
      BY <1>todo, <1>20, CallKinds DEF Save, Does
    <3>2. \/ work'.todo = <<"start", "check">> /\ file' = work.desired /\ work.todo \in Saving
          \/ work'.todo = <<"start", "notify">> /\ file' = work.previous /\ work.todo \in GoingBack
      BY <1>g, <2>2, <3>1, Remainder DEF Saved, Rest, Saving, GoingBack
    <3>3. work'.desired = work.desired /\ work'.previous = work.previous
      BY <1>g, <2>2
    <3>4. work.desired # NoConfig
      BY <1>t, <3>2 DEF ApplyOK, Applying
    <3>5. /\ <<"start", "check">> \in Trying /\ <<"start", "check">> # <<>> /\ Head(<<"start", "check">>) = "start"
          /\ <<"start", "notify">> \in Again
      BY First DEF Trying, Again
    <3>6. CASE work'.todo = <<"start", "check">> /\ file' = work.desired
      BY <3>3, <3>4, <3>5, <3>6, Kinds DEF ApplyOK, ApplyRestores, Applying, Does
    <3>7. CASE work'.todo = <<"start", "notify">> /\ file' = work.previous
      BY <3>3, <3>4, <3>5, <3>7, Kinds DEF ApplyOK, ApplyRestores, Applying
    <3> QED
      BY <3>2, <3>6, <3>7
  <2> QED
    BY <1>20, <2>1, <2>2 DEF Save
<1>21. CASE Check
  <2>1. work.todo = <<"check">>
    BY <1>todo, <1>21, CallKinds DEF Check, Does
  <2>2. work.todo \in Trying /\ ~Does("start")
    BY <2>1, First DEF Trying, Does
  <2>3. work.desired # NoConfig /\ file = work.desired /\ ~controller.notice
    BY <1>t, <2>2 DEF ApplyOK, Applying
  <2>4. UNCHANGED <<file, controller>>
    BY <1>21 DEF Check
  <2>5. CASE controller.state = "error" /\ work.previous # NoConfig
    <3>1. /\ work'.todo = <<"stop", "restore", "start", "notify">>
          /\ work'.desired = work.desired /\ work'.previous = work.previous
      BY <1>g, <1>21, <2>5 DEF Check
    <3>2. work'.todo \in GoingBack
      BY <3>1 DEF GoingBack
    <3> QED
      BY <2>3, <2>5, <3>1, <3>2, Kinds DEF ApplyOK, ApplyRestores, Applying
  <2>6. CASE ~(controller.state = "error" /\ work.previous # NoConfig)
    <3>1. work'.todo = <<>> /\ work'.desired = work.desired /\ work'.previous = work.previous
      BY <1>g, <1>21, <2>6 DEF Check
    <3> QED
      BY <2>3, <2>4, <2>6, <3>1, Kinds DEF ApplyOK, ApplyRestores, Applying
  <2> QED
    BY <2>5, <2>6
<1>22. CASE Notify
  <2>1. work.todo = <<"notify">>
    BY <1>todo, <1>22, CallKinds DEF Notify, Does
  <2>2. work.todo \in Again
    BY <2>1 DEF Again
  <2>3. work.desired # NoConfig /\ file = work.previous
    BY <1>t, <2>2 DEF ApplyOK, Applying
  <2>4. work'.todo = <<>> /\ work'.desired = work.desired /\ work'.previous = work.previous
    BY <1>g, <1>22, <2>1, Remainder DEF Notify, Rest
  <2>5. controller'.notice /\ controller'.shown /\ file' = file
    BY <1>c, <1>22 DEF Notify, Controllers
  <2> QED
    BY <2>3, <2>4, <2>5, Kinds DEF ApplyOK, ApplyRestores, Applying
<1> QED
  BY <1>5, <1>6, <1>7, <1>8, <1>9, <1>10, <1>13, <1>14, <1>15, <1>16, <1>17, <1>18, <1>19, <1>20, <1>21, <1>22, <1>23
  DEF Next, Desktop, Tick, Work

------------------------------------------------------------------------------
(* The invariant holds when nothing runs.                                      *)
LEMMA InitInv == Init => Inv
<1> SUFFICES ASSUME Init PROVE Inv
  OBVIOUS
<1>1. <<>> \in Seq(Lines) /\ <<>> \in Seq(Calls)
  OBVIOUS
<1>2. TypeOK
  <2>1. Exited \in Servers
    BY <1>1, ExitedType
  <2> QED
    BY <1>1, <2>1, Bounds DEF Init, TypeOK, Servers, NoController, NoWindow, NoWork, Free
<1>3. LocksOK /\ ClosedOK
  BY DEF Init, LocksOK, ClosedOK, NoWindow, Free
<1>4. WorkOK
  BY DEF Init, WorkOK, Does, NoWork
<1>5. ApplyOK
  BY Kinds DEF Init, ApplyOK, ApplyRestores, NoWork, NoWindow, Applying
<1>6. ReportsOK /\ ServedOK
  BY DEF Init, ReportsOK, ServedOK, Exited, NoController
<1> QED
  BY <1>2, <1>3, <1>4, <1>5, <1>6 DEF Inv

(* What the processes of a profile know of each other and of runtime.json, at  *)
(* every step of every process.                                                *)
THEOREM Invariance == Spec => []Inv
<1>1. Inv /\ [Next]_vars => Inv'
  BY TypeStep, LocksStep, ClosedStep, WorkStep, ApplyStep, ReportsStep, ServedStep DEF Inv
<1> QED
  BY InitInv, <1>1, PTL DEF Spec

(* The attributes hold what the code's types say.                              *)
THEOREM TypeCorrect == Spec => []TypeOK
<1>1. Inv => TypeOK
  BY DEF Inv
<1> QED
  BY <1>1, Invariance, PTL

(* The window shows the address of the server that runs, whatever was started, *)
(* stopped, timed out or left in a queue before (start, stop, _read_events and *)
(* the locks of configure and serve).                                          *)
THEOREM ShownAddressIsServed == Spec => []ShownIsServed
<1>1. Inv => ShownIsServed
  BY DEF Inv, ServedOK, ShownIsServed, Running, TypeOK
<1> QED
  BY <1>1, Invariance, PTL

(* An apply that ends leaves the settings a server has started with, or the    *)
(* previous ones with the notice, at whatever step it failed.                  *)
THEOREM ApplyEndsWell == Spec => []ApplyRestores
<1>1. Inv => ApplyRestores
  BY DEF Inv, ApplyOK
<1> QED
  BY <1>1, Invariance, PTL
==============================================================================
