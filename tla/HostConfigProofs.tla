--------------------------- MODULE HostConfigProofs ---------------------------
(* Theorems about HostConfig, for any interfaces, addresses and runs of     *)
(* config set, and any number of setups and crashes.                        *)
EXTENDS HostConfig, TLAPS

(* What a main.json that is whole is not.                                   *)
LEMMA Distinct ==
  /\ Absent # Empty /\ Absent \notin Mains /\ Empty \notin Mains
  /\ \A n \in Nat, b \in BOOLEAN : [setup |-> n, grpc |-> b] \in Mains
<1>1. \A n \in Nat, b \in BOOLEAN : [setup |-> n, grpc |-> b] \in Mains
  BY DEF Mains
<1> QED BY <1>1, HostAssumption

(* What service-discoverd does with main.json, and how it gets to Consul.   *)
LEMMA DaemonOutcomes ==
  ASSUME TypeOK
  PROVE  /\ ReadMain =>
              \/ daemon' = Fresh("waiting")
              \/ /\ main \in Mains
                 /\ daemon' = [daemon EXCEPT !.held = main,
                                 !.pc = IF main.grpc THEN "exec" ELSE "truncate"]
         /\ RewriteFill =>
              \/ /\ main' \in Mains /\ main'.setup = daemon.held.setup
                 /\ daemon' = [daemon EXCEPT !.pc = "exec"]
                 /\ interrupted' = interrupted
              \/ /\ daemon' = Fresh("waiting") /\ main' = main
                 /\ interrupted' = interrupted \cup {"main"}
         /\ Exec =>
              \/ daemon' = Fresh("waiting")
              \/ \E a \in MayBindTo :
                   /\ daemon.listed = (role = "server")
                   /\ daemon' = [daemon EXCEPT !.pc = "running", !.bound = a]
<1>1. ReadMain => \/ daemon' = Fresh("waiting")
                  \/ /\ main \in Mains
                     /\ daemon' = [daemon EXCEPT !.held = main,
                                     !.pc = IF main.grpc THEN "exec" ELSE "truncate"]
  BY DEF ReadMain, NewDaemon, TypeOK
<1>2. RewriteFill =>
        \/ /\ main' \in Mains /\ main'.setup = daemon.held.setup
           /\ daemon' = [daemon EXCEPT !.pc = "exec"]
           /\ interrupted' = interrupted
        \/ /\ daemon' = Fresh("waiting") /\ main' = main
           /\ interrupted' = interrupted \cup {"main"}
  <2>1. [daemon.held EXCEPT !.grpc = TRUE] \in Mains
        /\ [daemon.held EXCEPT !.grpc = TRUE].setup = daemon.held.setup
    BY DEF TypeOK, Daemons, Mains
  <2> QED BY <2>1, Zenon DEF RewriteFill, NewDaemon
<1>3. Exec => \/ daemon' = Fresh("waiting")
              \/ \E a \in MayBindTo :
                   /\ daemon.listed = (role = "server")
                   /\ daemon' = [daemon EXCEPT !.pc = "running", !.bound = a]
  BY Zenon DEF Exec, NewDaemon
<1> QED BY <1>1, <1>2, <1>3

(* The states service-discoverd goes through are of its type.               *)
LEMMA DaemonTypes ==
  ASSUME NEW d \in Daemons, NEW label \in DaemonLabels
  PROVE  /\ Fresh(label) \in Daemons
         /\ d.held \in Mains /\ [d.held EXCEPT !.grpc = TRUE] \in Mains
         /\ [d EXCEPT !.pc = label] \in Daemons
         /\ \A b \in BOOLEAN : [d EXCEPT !.pc = label, !.listed = b] \in Daemons
         /\ \A m \in Mains : [d EXCEPT !.held = m, !.pc = label] \in Daemons
         /\ \A a \in {Default} \cup Addresses :
              [d EXCEPT !.pc = label, !.bound = a] \in Daemons
  BY DEF Daemons, DaemonLabels, Fresh, OldMain, Mains

(* Every step keeps the type.                                               *)
LEMMA TypeStep ==
  ASSUME TypeOK, [Next]_vars
  PROVE  TypeOK'
<1>1. CASE Begin
  BY <1>1, HostAssumption DEF Begin, SetupAt, SetupTo, confVars, counts,
      TypeOK, Mains, OldMain, Files, SetupLabels, Daemons, DaemonLabels
<1>2. CASE TruncateMain
  BY <1>2, HostAssumption DEF TruncateMain, SetupAt, SetupTo, confVars,
      counts, TypeOK, Mains, OldMain, Files, SetupLabels, Daemons,
      DaemonLabels
<1>3. CASE FillMain
  BY <1>3, HostAssumption DEF FillMain, SetupAt, SetupTo, confVars, counts,
      TypeOK, Mains, OldMain, Files, SetupLabels, Daemons, DaemonLabels
<1>4. CASE HandOverMain
  BY <1>4, HostAssumption DEF HandOverMain, HandOver, SetupAt, SetupTo,
      confVars, counts, TypeOK, Mains, OldMain, Files, SetupLabels, Daemons,
      DaemonLabels
<1>5. CASE TruncateBind
  <2>1. overlapped' \in BOOLEAN
    BY <1>5, Zenon DEF TruncateBind, TruncateConf
  <2>2. /\ SetupTo("confFill") /\ SetupAt("conf") /\ conf' = Empty
        /\ UNCHANGED <<role, main, registered, setter, daemon, counts, interrupted,
                       leftover, lastFill>>
        /\ readable' \in {readable, readable \ {"conf"}}
    BY <1>5 DEF TruncateBind, TruncateConf
  <2> HIDE <1>5
  <2>3. setup.bind \in Addresses
    BY <2>2 DEF TypeOK, SetupAt
  <2> QED BY <2>1, <2>2, <2>3 DEF SetupAt, SetupTo, counts, TypeOK, Files, SetupLabels
<1>6. CASE FillBind
  BY <1>6, HostAssumption DEF FillBind, FillConf, Over, SetupAt, SetupTo,
      confVars, counts, TypeOK, Mains, OldMain, Files, SetupLabels, Daemons,
      DaemonLabels
<1>7. CASE HandOverConf
  BY <1>7, HostAssumption DEF HandOverConf, HandOver, SetupAt, SetupTo,
      confVars, counts, TypeOK, Mains, OldMain, Files, SetupLabels, Daemons,
      DaemonLabels
<1>8. CASE Register
  BY <1>8, HostAssumption DEF Register, SetupAt, SetupTo, confVars, counts,
      TypeOK, Mains, OldMain, Files, SetupLabels, Daemons, DaemonLabels
<1>9. CASE StartUnit
  <2>1. daemon' \in Daemons
    BY <1>9, DaemonTypes DEF StartUnit, NewDaemon, DaemonLabels, TypeOK
  <2> QED BY <1>9, <2>1, HostAssumption DEF StartUnit, TypeOK, confVars, counts, SetupLabels, SetupAt, SetupTo, Files
<1>10. CASE UnitStarted
  BY <1>10, HostAssumption DEF UnitStarted, SetupAt, SetupTo, confVars,
      counts, TypeOK, Mains, OldMain, Files, SetupLabels, Daemons,
      DaemonLabels
<1>11. CASE SetupFails
  BY <1>11, HostAssumption DEF SetupFails, HalfWritten, SetupAt, SetupTo,
      confVars, counts, TypeOK, Mains, OldMain, Files, SetupLabels, Daemons,
      DaemonLabels
<1>12. CASE Reset
  BY <1>12, HostAssumption DEF Reset, NewDaemon, Fresh, SetupAt, SetupTo,
      confVars, counts, TypeOK, Mains, OldMain, Files, SetupLabels, Daemons,
      DaemonLabels
<1>13. ASSUME NEW s \in Setters, SetRead(s) PROVE TypeOK'
  BY <1>13, HostAssumption DEF SetRead, SetupAt, SetupTo, confVars, counts,
      TypeOK, Mains, OldMain, Files, SetupLabels, Daemons, DaemonLabels
<1>14. ASSUME NEW s \in Setters, SetTruncate(s) PROVE TypeOK'
  BY <1>14, HostAssumption DEF SetTruncate, TruncateConf, ConfWriters,
      SetterTo, SetupAt, SetupTo, confVars, counts, TypeOK, Mains, OldMain,
      Files, SetupLabels, Daemons, DaemonLabels
<1>15. ASSUME NEW s \in Setters, SetFill(s) PROVE TypeOK'
  BY <1>15, HostAssumption DEF SetFill, FillConf, Over, SetterTo, SetupAt,
      SetupTo, confVars, counts, TypeOK, Mains, OldMain, Files, SetupLabels,
      Daemons, DaemonLabels
<1>16. CASE Query
  <2>1. daemon' \in Daemons
    BY <1>16, DaemonTypes DEF Query, DaemonLabels, TypeOK
  <2> QED BY <1>16, <2>1, HostAssumption DEF Query, TypeOK, confVars, counts, SetupLabels, SetupAt, SetupTo, Files
<1>17. CASE ReadMain
  <2>1. daemon' \in Daemons
    <3>1. CASE daemon' = Fresh("waiting")
      BY <3>1, DaemonTypes DEF DaemonLabels, TypeOK
    <3>2. CASE main \in Mains /\ daemon' = [daemon EXCEPT !.held = main,
                                        !.pc = IF main.grpc THEN "exec" ELSE "truncate"]
      BY <3>2, DaemonTypes DEF DaemonLabels, TypeOK
    <3> QED BY <1>17, <3>1, <3>2 DEF ReadMain, NewDaemon, TypeOK
  <2> QED BY <1>17, <2>1, HostAssumption DEF ReadMain, TypeOK, confVars, counts, SetupLabels, SetupAt, SetupTo, Files
<1>18. CASE RewriteTruncate
  BY <1>18, HostAssumption DEF RewriteTruncate, SetupAt, SetupTo, confVars,
      counts, TypeOK, Mains, OldMain, Files, SetupLabels, Daemons,
      DaemonLabels
<1>19. CASE RewriteFill
  <2>1. daemon' \in Daemons /\ main' \in {Absent, Empty} \cup Mains
    BY <1>19, DaemonTypes DEF RewriteFill, NewDaemon, DaemonLabels, TypeOK
  <2> QED BY <1>19, <2>1, HostAssumption DEF RewriteFill, TypeOK, confVars, counts, SetupLabels, SetupAt, SetupTo, Files
<1>20. CASE Exec
  <2>1. MayBindTo \subseteq {Default} \cup Addresses
    BY DEF MayBindTo, TypeOK
  <2>2. \/ daemon' = Fresh("waiting")
        \/ \E a \in {Default} \cup Addresses :
             daemon' = [daemon EXCEPT !.pc = "running", !.bound = a]
    <3>1. \/ \E a \in MayBindTo : daemon' = [daemon EXCEPT !.pc = "running", !.bound = a]
          \/ NewDaemon("waiting")
      BY <1>20, Zenon DEF Exec
    <3> QED BY <3>1, <2>1, Zenon DEF NewDaemon
  <2>3. daemon' \in Daemons
    <3>1. CASE daemon' = Fresh("waiting")
      BY <3>1, DaemonTypes DEF DaemonLabels, TypeOK
    <3>2. ASSUME NEW a \in {Default} \cup Addresses,
                 daemon' = [daemon EXCEPT !.pc = "running", !.bound = a]
          PROVE  daemon' \in Daemons
      BY <3>2, DaemonTypes DEF DaemonLabels, TypeOK
    <3> QED BY <2>2, <3>1, <3>2
  <2>4. UNCHANGED <<role, main, confVars, readable, registered, setup, setter, counts,
                    interrupted, leftover>>
    BY <1>20 DEF Exec
  <2> QED BY <2>3, <2>4 DEF TypeOK, confVars, counts, SetupLabels, SetupAt, Files
<1>21. CASE Die
  <2>1. PICK label \in {"waiting", "stopped"} : daemon' = Fresh(label)
    BY <1>21 DEF Die, NewDaemon
  <2>2. daemon' \in Daemons
    BY <2>1, DaemonTypes DEF DaemonLabels, TypeOK
  <2>3. UNCHANGED <<role, main, confVars, readable, registered, setup, setter, counts,
                    interrupted, leftover>>
    BY <1>21 DEF Die
  <2> QED BY <2>2, <2>3 DEF TypeOK, confVars, counts, SetupLabels, SetupAt, Files
<1>22. CASE Crash
  BY <1>22, HostAssumption DEF Crash, NewDaemon, Fresh, HalfWritten, SetterTo,
      SetupAt, SetupTo, confVars, counts, TypeOK, Mains, OldMain, Files,
      SetupLabels, Daemons, DaemonLabels
<1>23. CASE UNCHANGED vars
  BY <1>23, HostAssumption DEF vars, TypeOK, Mains, OldMain, Files,
      SetupLabels, Daemons, DaemonLabels, SetupAt
<1> QED
  BY <1>1, <1>2, <1>3, <1>4, <1>5, <1>6, <1>7, <1>8, <1>9, <1>10, <1>11,
      <1>12, <1>13, <1>14, <1>15, <1>16, <1>17, <1>18, <1>19, <1>20, <1>21,
      <1>22, <1>23
     DEF Next, Setup, Set, Daemon

(* No step puts back an earlier setup's main.json, or loses the last one.    *)
LEMMA MainStep ==
  ASSUME TypeOK, MainInv, MainIsLastSetup, [Next]_vars
  PROVE  (MainInv /\ MainIsLastSetup)'
<1>1. CASE Begin
  BY <1>1, HostAssumption DEF Begin, SetupAt, SetupTo, confVars, counts,
      TypeOK, Mains, SetupLabels, MainInv, MainIsLastSetup, Daemons, Files
<1>2. CASE TruncateMain
  BY <1>2, HostAssumption DEF TruncateMain, SetupAt, SetupTo, confVars,
      counts, TypeOK, Mains, SetupLabels, MainInv, MainIsLastSetup, Daemons,
      Files
<1>3. CASE FillMain
  <2>1. main' \in Mains /\ main'.setup = setups
    BY <1>3 DEF FillMain, TypeOK, Mains
  <2>2. setup'.pc = "mainPerm" /\ setup.pc = "mainFill"
    BY <1>3 DEF FillMain, SetupTo, SetupAt, TypeOK
  <2>3. UNCHANGED <<daemon, setups>>
    BY <1>3 DEF FillMain, counts
  <2> QED BY <2>1, <2>2, <2>3, Distinct DEF MainInv, MainIsLastSetup, SetupAt
<1>4. CASE HandOverMain
  BY <1>4, HostAssumption DEF HandOverMain, HandOver, SetupAt, SetupTo,
      confVars, counts, TypeOK, Mains, SetupLabels, MainInv, MainIsLastSetup,
      Daemons, Files
<1>5. CASE TruncateBind
  BY <1>5, HostAssumption DEF TruncateBind, TruncateConf, ConfWriters,
      SetupAt, SetupTo, confVars, counts, TypeOK, Mains, SetupLabels, MainInv,
      MainIsLastSetup, Daemons, Files
<1>6. CASE FillBind
  BY <1>6, HostAssumption DEF FillBind, FillConf, Over, SetupAt, SetupTo,
      confVars, counts, TypeOK, Mains, SetupLabels, MainInv, MainIsLastSetup,
      Daemons, Files
<1>7. CASE HandOverConf
  BY <1>7, HostAssumption DEF HandOverConf, HandOver, SetupAt, SetupTo,
      confVars, counts, TypeOK, Mains, SetupLabels, MainInv, MainIsLastSetup,
      Daemons, Files
<1>8. CASE Register
  BY <1>8, HostAssumption DEF Register, SetupAt, SetupTo, confVars, counts,
      TypeOK, Mains, SetupLabels, MainInv, MainIsLastSetup, Daemons, Files
<1>9. CASE StartUnit
  BY <1>9, HostAssumption DEF StartUnit, NewDaemon, Fresh, SetupAt, SetupTo,
      confVars, counts, TypeOK, Mains, SetupLabels, MainInv, MainIsLastSetup,
      Daemons, Files
<1>10. CASE UnitStarted
  BY <1>10, HostAssumption DEF UnitStarted, SetupAt, SetupTo, confVars,
      counts, TypeOK, Mains, SetupLabels, MainInv, MainIsLastSetup, Daemons,
      Files
<1>11. CASE SetupFails
  BY <1>11, HostAssumption DEF SetupFails, HalfWritten, SetupAt, SetupTo,
      confVars, counts, TypeOK, Mains, SetupLabels, MainInv, MainIsLastSetup,
      Daemons, Files
<1>12. CASE Reset
  BY <1>12, HostAssumption DEF Reset, NewDaemon, Fresh, SetupAt, SetupTo,
      confVars, counts, TypeOK, Mains, SetupLabels, MainInv, MainIsLastSetup,
      Daemons, Files
<1>13. ASSUME NEW s \in Setters, SetRead(s) PROVE (MainInv /\ MainIsLastSetup)'
  BY <1>13, HostAssumption DEF SetRead, SetupAt, SetupTo, confVars, counts,
      TypeOK, Mains, SetupLabels, MainInv, MainIsLastSetup, Daemons, Files
<1>14. ASSUME NEW s \in Setters, SetTruncate(s) PROVE (MainInv /\ MainIsLastSetup)'
  BY <1>14, HostAssumption DEF SetTruncate, TruncateConf, ConfWriters,
      SetterTo, SetupAt, SetupTo, confVars, counts, TypeOK, Mains,
      SetupLabels, MainInv, MainIsLastSetup, Daemons, Files
<1>15. ASSUME NEW s \in Setters, SetFill(s) PROVE (MainInv /\ MainIsLastSetup)'
  BY <1>15, HostAssumption DEF SetFill, FillConf, Over, SetterTo, SetupAt,
      SetupTo, confVars, counts, TypeOK, Mains, SetupLabels, MainInv,
      MainIsLastSetup, Daemons, Files
<1>16. CASE Query
  BY <1>16, HostAssumption DEF Query, SetupAt, SetupTo, confVars, counts,
      TypeOK, Mains, SetupLabels, MainInv, MainIsLastSetup, Daemons, Files
<1>17. CASE ReadMain
  <2>1. UNCHANGED <<main, setup, setups, interrupted>>
        /\ daemon \in Daemons /\ daemon.pc = "read"
    BY <1>17 DEF ReadMain, confVars, counts, TypeOK
  <2>2. CASE daemon' = Fresh("waiting")
    BY <2>1, <2>2, Distinct
       DEF Fresh, Daemons, MainInv, MainIsLastSetup, SetupAt
  <2>3. CASE /\ main \in Mains
             /\ daemon' = [daemon EXCEPT !.held = main,
                            !.pc = IF main.grpc THEN "exec" ELSE "truncate"]
    BY <2>1, <2>3, Distinct
       DEF Fresh, Daemons, MainInv, MainIsLastSetup, SetupAt
  <2> QED BY <1>17, <2>2, <2>3, DaemonOutcomes
<1>18. CASE RewriteTruncate
  BY <1>18, HostAssumption DEF RewriteTruncate, SetupAt, SetupTo, confVars,
      counts, TypeOK, Mains, SetupLabels, MainInv, MainIsLastSetup, Daemons,
      Files
<1>19. CASE RewriteFill
  <2>1. UNCHANGED <<setup, setups>>
        /\ daemon \in Daemons /\ daemon.pc = "fill"
    BY <1>19 DEF RewriteFill, confVars, counts, TypeOK
  <2>2. CASE /\ main' \in Mains /\ main'.setup = daemon.held.setup
             /\ daemon' = [daemon EXCEPT !.pc = "exec"]
             /\ interrupted' = interrupted
    BY <2>1, <2>2, Distinct
       DEF Fresh, Daemons, MainInv, MainIsLastSetup, SetupAt, DaemonLabels
  <2>3. CASE /\ daemon' = Fresh("waiting") /\ main' = main
             /\ interrupted' = interrupted \cup {"main"}
    BY <2>1, <2>3, Distinct
       DEF Fresh, Daemons, MainInv, MainIsLastSetup, SetupAt, DaemonLabels
  <2> QED BY <1>19, <2>2, <2>3, DaemonOutcomes
<1>20. CASE Exec
  <2>1. UNCHANGED <<main, setup, setups, interrupted>>
        /\ daemon \in Daemons /\ daemon.pc = "exec"
    BY <1>20 DEF Exec, confVars, counts, TypeOK
  <2>2. CASE daemon' = Fresh("waiting")
    BY <2>1, <2>2, Distinct
       DEF Fresh, Daemons, MainInv, MainIsLastSetup, SetupAt
  <2>3. ASSUME NEW a \in MayBindTo,
               daemon' = [daemon EXCEPT !.pc = "running", !.bound = a]
        PROVE  (MainInv /\ MainIsLastSetup)'
    BY <2>1, <2>3, Distinct
       DEF Fresh, Daemons, MainInv, MainIsLastSetup, SetupAt
  <2> QED BY <1>20, <2>2, <2>3, DaemonOutcomes
<1>21. CASE Die
  BY <1>21, HostAssumption DEF Die, NewDaemon, Fresh, SetupAt, SetupTo,
      confVars, counts, TypeOK, Mains, SetupLabels, MainInv, MainIsLastSetup,
      Daemons, Files
<1>22. CASE Crash
  BY <1>22, HostAssumption DEF Crash, NewDaemon, Fresh, HalfWritten, SetterTo,
      SetupAt, SetupTo, confVars, counts, TypeOK, Mains, SetupLabels, MainInv,
      MainIsLastSetup, Daemons, Files
<1>23. CASE UNCHANGED vars
  BY <1>23, HostAssumption DEF vars, TypeOK, Mains, SetupLabels, MainInv,
      MainIsLastSetup, Daemons, Files, SetupAt
<1> QED
  BY <1>1, <1>2, <1>3, <1>4, <1>5, <1>6, <1>7, <1>8, <1>9, <1>10, <1>11,
      <1>12, <1>13, <1>14, <1>15, <1>16, <1>17, <1>18, <1>19, <1>20, <1>21,
      <1>22, <1>23
     DEF Next, Setup, Set, Daemon

(* While no writers overlap, config.json is what it was last filled with.    *)
LEMMA FillStep ==
  ASSUME TypeOK, FillInv, GetIsLastSet, [Next]_vars
  PROVE  (FillInv /\ GetIsLastSet)'
<1>1. CASE Begin
  BY <1>1, HostAssumption DEF Begin, SetupAt, SetupTo, confVars, counts,
      TypeOK, SetupLabels, FillInv, GetIsLastSet, ConfWriters, Files
<1>2. CASE TruncateMain
  BY <1>2, HostAssumption DEF TruncateMain, SetupAt, SetupTo, confVars,
      counts, TypeOK, SetupLabels, FillInv, GetIsLastSet, ConfWriters, Files
<1>3. CASE FillMain
  BY <1>3, HostAssumption DEF FillMain, SetupAt, SetupTo, confVars, counts,
      TypeOK, SetupLabels, FillInv, GetIsLastSet, ConfWriters, Files
<1>4. CASE HandOverMain
  BY <1>4, HostAssumption DEF HandOverMain, HandOver, SetupAt, SetupTo,
      confVars, counts, TypeOK, SetupLabels, FillInv, GetIsLastSet,
      ConfWriters, Files
<1>5. CASE TruncateBind
  BY <1>5, HostAssumption DEF TruncateBind, TruncateConf, ConfWriters,
      SetupAt, SetupTo, confVars, counts, TypeOK, SetupLabels, FillInv,
      GetIsLastSet, Files
<1>6. CASE FillBind
  BY <1>6, HostAssumption DEF FillBind, FillConf, Over, SetupAt, SetupTo,
      confVars, counts, TypeOK, SetupLabels, FillInv, GetIsLastSet,
      ConfWriters, Files
<1>7. CASE HandOverConf
  BY <1>7, HostAssumption DEF HandOverConf, HandOver, SetupAt, SetupTo,
      confVars, counts, TypeOK, SetupLabels, FillInv, GetIsLastSet,
      ConfWriters, Files
<1>8. CASE Register
  BY <1>8, HostAssumption DEF Register, SetupAt, SetupTo, confVars, counts,
      TypeOK, SetupLabels, FillInv, GetIsLastSet, ConfWriters, Files
<1>9. CASE StartUnit
  BY <1>9, HostAssumption DEF StartUnit, NewDaemon, Fresh, SetupAt, SetupTo,
      confVars, counts, TypeOK, SetupLabels, FillInv, GetIsLastSet,
      ConfWriters, Files
<1>10. CASE UnitStarted
  BY <1>10, HostAssumption DEF UnitStarted, SetupAt, SetupTo, confVars,
      counts, TypeOK, SetupLabels, FillInv, GetIsLastSet, ConfWriters, Files
<1>11. CASE SetupFails
  BY <1>11, HostAssumption DEF SetupFails, HalfWritten, SetupAt, SetupTo,
      confVars, counts, TypeOK, SetupLabels, FillInv, GetIsLastSet,
      ConfWriters, Files
<1>12. CASE Reset
  BY <1>12, HostAssumption DEF Reset, NewDaemon, Fresh, SetupAt, SetupTo,
      confVars, counts, TypeOK, SetupLabels, FillInv, GetIsLastSet,
      ConfWriters, Files
<1>13. ASSUME NEW s \in Setters, SetRead(s) PROVE (FillInv /\ GetIsLastSet)'
  BY <1>13, HostAssumption DEF SetRead, SetupAt, SetupTo, confVars, counts,
      TypeOK, SetupLabels, FillInv, GetIsLastSet, ConfWriters, Files
<1>14. ASSUME NEW s \in Setters, SetTruncate(s) PROVE (FillInv /\ GetIsLastSet)'
  BY <1>14, HostAssumption DEF SetTruncate, TruncateConf, ConfWriters,
      SetterTo, SetupAt, SetupTo, confVars, counts, TypeOK, SetupLabels,
      FillInv, GetIsLastSet, Files
<1>15. ASSUME NEW s \in Setters, SetFill(s) PROVE (FillInv /\ GetIsLastSet)'
  BY <1>15, HostAssumption DEF SetFill, FillConf, Over, SetterTo, SetupAt,
      SetupTo, confVars, counts, TypeOK, SetupLabels, FillInv, GetIsLastSet,
      ConfWriters, Files
<1>16. CASE Query
  BY <1>16, HostAssumption DEF Query, SetupAt, SetupTo, confVars, counts,
      TypeOK, SetupLabels, FillInv, GetIsLastSet, ConfWriters, Files
<1>17. CASE ReadMain
  BY <1>17, HostAssumption DEF ReadMain, NewDaemon, Fresh, SetupAt, SetupTo,
      confVars, counts, TypeOK, SetupLabels, FillInv, GetIsLastSet,
      ConfWriters, Files
<1>18. CASE RewriteTruncate
  BY <1>18, HostAssumption DEF RewriteTruncate, SetupAt, SetupTo, confVars,
      counts, TypeOK, SetupLabels, FillInv, GetIsLastSet, ConfWriters, Files
<1>19. CASE RewriteFill
  BY <1>19, HostAssumption DEF RewriteFill, NewDaemon, Fresh, SetupAt,
      SetupTo, confVars, counts, TypeOK, SetupLabels, FillInv, GetIsLastSet,
      ConfWriters, Files
<1>20. CASE Exec
  BY <1>20, HostAssumption DEF Exec, NewDaemon, Fresh, MayBindTo, SetupAt,
      SetupTo, confVars, counts, TypeOK, SetupLabels, FillInv, GetIsLastSet,
      ConfWriters, Files
<1>21. CASE Die
  BY <1>21, HostAssumption DEF Die, NewDaemon, Fresh, SetupAt, SetupTo,
      confVars, counts, TypeOK, SetupLabels, FillInv, GetIsLastSet,
      ConfWriters, Files
<1>22. CASE Crash
  BY <1>22, HostAssumption DEF Crash, NewDaemon, Fresh, HalfWritten, SetterTo,
      SetupAt, SetupTo, confVars, counts, TypeOK, SetupLabels, FillInv,
      GetIsLastSet, ConfWriters, Files
<1>23. CASE UNCHANGED vars
  BY <1>23, HostAssumption DEF vars, TypeOK, SetupLabels, FillInv,
      GetIsLastSet, ConfWriters, Files, SetupAt
<1> QED
  BY <1>1, <1>2, <1>3, <1>4, <1>5, <1>6, <1>7, <1>8, <1>9, <1>10, <1>11,
      <1>12, <1>13, <1>14, <1>15, <1>16, <1>17, <1>18, <1>19, <1>20, <1>21,
      <1>22, <1>23
     DEF Next, Setup, Set, Daemon

(* Every step keeps config.json where a server is registered.               *)
LEMMA BindStep ==
  ASSUME TypeOK, MainInv, BindInv, [Next]_vars
  PROVE  BindInv'
<1>1. CASE Begin
  BY <1>1, HostAssumption DEF Begin, SetupAt, SetupTo, confVars, counts,
      TypeOK, SetupLabels, MainInv, BindInv, ConfThere, Files, Daemons
<1>2. CASE TruncateMain
  BY <1>2, HostAssumption DEF TruncateMain, SetupAt, SetupTo, confVars,
      counts, TypeOK, SetupLabels, MainInv, BindInv, ConfThere, Files, Daemons
<1>3. CASE FillMain
  BY <1>3, HostAssumption DEF FillMain, SetupAt, SetupTo, confVars, counts,
      TypeOK, SetupLabels, MainInv, BindInv, ConfThere, Files, Daemons
<1>4. CASE HandOverMain
  BY <1>4, HostAssumption DEF HandOverMain, HandOver, SetupAt, SetupTo,
      confVars, counts, TypeOK, SetupLabels, MainInv, BindInv, ConfThere,
      Files, Daemons
<1>5. CASE TruncateBind
  BY <1>5, HostAssumption DEF TruncateBind, TruncateConf, ConfWriters,
      SetupAt, SetupTo, confVars, counts, TypeOK, SetupLabels, MainInv,
      BindInv, ConfThere, Files, Daemons
<1>6. CASE FillBind
  BY <1>6, HostAssumption DEF FillBind, FillConf, Over, SetupAt, SetupTo,
      confVars, counts, TypeOK, SetupLabels, MainInv, BindInv, ConfThere,
      Files, Daemons
<1>7. CASE HandOverConf
  BY <1>7, HostAssumption DEF HandOverConf, HandOver, SetupAt, SetupTo,
      confVars, counts, TypeOK, SetupLabels, MainInv, BindInv, ConfThere,
      Files, Daemons
<1>8. CASE Register
  BY <1>8, HostAssumption DEF Register, SetupAt, SetupTo, confVars, counts,
      TypeOK, SetupLabels, MainInv, BindInv, ConfThere, Files, Daemons
<1>9. CASE StartUnit
  BY <1>9, HostAssumption DEF StartUnit, NewDaemon, Fresh, SetupAt, SetupTo,
      confVars, counts, TypeOK, SetupLabels, MainInv, BindInv, ConfThere,
      Files, Daemons
<1>10. CASE UnitStarted
  BY <1>10, HostAssumption DEF UnitStarted, SetupAt, SetupTo, confVars,
      counts, TypeOK, SetupLabels, MainInv, BindInv, ConfThere, Files, Daemons
<1>11. CASE SetupFails
  BY <1>11, HostAssumption DEF SetupFails, HalfWritten, SetupAt, SetupTo,
      confVars, counts, TypeOK, SetupLabels, MainInv, BindInv, ConfThere,
      Files, Daemons
<1>12. CASE Reset
  BY <1>12, HostAssumption DEF Reset, NewDaemon, Fresh, SetupAt, SetupTo,
      confVars, counts, TypeOK, SetupLabels, MainInv, BindInv, ConfThere,
      Files, Daemons
<1>13. ASSUME NEW s \in Setters, SetRead(s) PROVE BindInv'
  BY <1>13, HostAssumption DEF SetRead, SetupAt, SetupTo, confVars, counts,
      TypeOK, SetupLabels, MainInv, BindInv, ConfThere, Files, Daemons
<1>14. ASSUME NEW s \in Setters, SetTruncate(s) PROVE BindInv'
  BY <1>14, HostAssumption DEF SetTruncate, TruncateConf, ConfWriters,
      SetterTo, SetupAt, SetupTo, confVars, counts, TypeOK, SetupLabels,
      MainInv, BindInv, ConfThere, Files, Daemons
<1>15. ASSUME NEW s \in Setters, SetFill(s) PROVE BindInv'
  BY <1>15, HostAssumption DEF SetFill, FillConf, Over, SetterTo, SetupAt,
      SetupTo, confVars, counts, TypeOK, SetupLabels, MainInv, BindInv,
      ConfThere, Files, Daemons
<1>16. CASE Query
  BY <1>16, HostAssumption DEF Query, SetupAt, SetupTo, confVars, counts,
      TypeOK, SetupLabels, MainInv, BindInv, ConfThere, Files, Daemons
<1>17. CASE ReadMain
  <2>1. UNCHANGED <<role, main, conf, registered, leftover, setup, setter, interrupted>>
        /\ daemon \in Daemons /\ daemon.pc = "read"
    BY <1>17 DEF ReadMain, confVars, counts, TypeOK
  <2>2. CASE daemon' = Fresh("waiting")
    BY <2>1, <2>2, Distinct
       DEF Fresh, Daemons, BindInv, ConfThere, SetupAt
  <2>3. CASE /\ main \in Mains
             /\ daemon' = [daemon EXCEPT !.held = main,
                            !.pc = IF main.grpc THEN "exec" ELSE "truncate"]
    BY <2>1, <2>3, Distinct
       DEF Fresh, Daemons, BindInv, ConfThere, SetupAt
  <2> QED BY <1>17, <2>2, <2>3, DaemonOutcomes
<1>18. CASE RewriteTruncate
  BY <1>18, HostAssumption DEF RewriteTruncate, SetupAt, SetupTo, confVars,
      counts, TypeOK, SetupLabels, MainInv, BindInv, ConfThere, Files, Daemons
<1>19. CASE RewriteFill
  <2>1. UNCHANGED <<role, conf, registered, leftover, setup, setter>>
        /\ daemon \in Daemons /\ daemon.pc = "fill"
    BY <1>19 DEF RewriteFill, confVars, counts, TypeOK
  <2>2. CASE /\ main' \in Mains /\ main'.setup = daemon.held.setup
             /\ daemon' = [daemon EXCEPT !.pc = "exec"]
             /\ interrupted' = interrupted
    BY <2>1, <2>2, Distinct
       DEF Fresh, Daemons, BindInv, ConfThere, SetupAt, DaemonLabels
  <2>3. CASE /\ daemon' = Fresh("waiting") /\ main' = main
             /\ interrupted' = interrupted \cup {"main"}
    BY <2>1, <2>3, Distinct
       DEF Fresh, Daemons, BindInv, ConfThere, SetupAt, DaemonLabels
  <2> QED BY <1>19, <2>2, <2>3, DaemonOutcomes
<1>20. CASE Exec
  <2>1. UNCHANGED <<role, main, conf, registered, leftover, setup, setter, interrupted>>
        /\ daemon \in Daemons /\ daemon.pc = "exec"
    BY <1>20 DEF Exec, confVars, counts, TypeOK
  <2>2. CASE daemon' = Fresh("waiting")
    BY <2>1, <2>2, Distinct
       DEF Fresh, Daemons, BindInv, ConfThere, SetupAt
  <2>3. ASSUME NEW a \in MayBindTo,
               daemon' = [daemon EXCEPT !.pc = "running", !.bound = a]
        PROVE  BindInv'
    BY <2>1, <2>3, Distinct
       DEF Fresh, Daemons, BindInv, ConfThere, SetupAt
  <2> QED BY <1>20, <2>2, <2>3, DaemonOutcomes
<1>21. CASE Die
  BY <1>21, HostAssumption DEF Die, NewDaemon, Fresh, SetupAt, SetupTo,
      confVars, counts, TypeOK, SetupLabels, MainInv, BindInv, ConfThere,
      Files, Daemons
<1>22. CASE Crash
  BY <1>22, HostAssumption DEF Crash, NewDaemon, Fresh, HalfWritten, SetterTo,
      SetupAt, SetupTo, confVars, counts, TypeOK, SetupLabels, MainInv,
      BindInv, ConfThere, Files, Daemons
<1>23. CASE UNCHANGED vars
  BY <1>23, HostAssumption DEF vars, TypeOK, SetupLabels, MainInv, BindInv,
      ConfThere, Files, Daemons, SetupAt
<1> QED
  BY <1>1, <1>2, <1>3, <1>4, <1>5, <1>6, <1>7, <1>8, <1>9, <1>10, <1>11,
      <1>12, <1>13, <1>14, <1>15, <1>16, <1>17, <1>18, <1>19, <1>20, <1>21,
      <1>22, <1>23
     DEF Next, Setup, Set, Daemon

(* Every step keeps to the window between main.json and config.json.       *)
LEMMA WindowStep ==
  ASSUME TypeOK, MainInv, BindInv, WindowInv, [Next]_vars
  PROVE  WindowInv'
<1> USE Distinct, HostAssumption DEF WindowInv, ConfThere
<1>1. CASE Begin
  BY <1>1 DEF Begin, SetupAt, SetupTo, confVars, TypeOK, MainInv, BindInv
<1>2. CASE TruncateMain
  BY <1>2 DEF TruncateMain, SetupAt, SetupTo, confVars, TypeOK, MainInv, BindInv
<1>3. CASE FillMain
  BY <1>3 DEF FillMain, SetupAt, SetupTo, confVars, TypeOK, MainInv, BindInv
<1>4. CASE HandOverMain
  BY <1>4 DEF HandOverMain, HandOver, SetupAt, SetupTo, confVars, TypeOK, MainInv, BindInv
<1>5. CASE TruncateBind
  BY <1>5 DEF TruncateBind, TruncateConf, SetupAt, SetupTo, confVars, TypeOK, MainInv, BindInv
<1>6. CASE FillBind
  BY <1>6 DEF FillBind, FillConf, Over, SetupAt, SetupTo, confVars, TypeOK, MainInv, BindInv
<1>7. CASE HandOverConf
  BY <1>7 DEF HandOverConf, HandOver, SetupAt, SetupTo, confVars, TypeOK, MainInv, BindInv
<1>8. CASE Register
  BY <1>8 DEF Register, SetupAt, SetupTo, confVars, TypeOK, MainInv, BindInv
<1>9. CASE StartUnit
  BY <1>9 DEF StartUnit, SetupAt, SetupTo, confVars, TypeOK, MainInv, BindInv
<1>10. CASE UnitStarted
  BY <1>10 DEF UnitStarted, SetupAt, SetupTo, confVars, TypeOK, MainInv, BindInv
<1>11. CASE SetupFails
  BY <1>11 DEF SetupFails, HalfWritten, SetupAt, SetupTo, confVars, TypeOK, MainInv, BindInv
<1>12. CASE Reset
  BY <1>12 DEF Reset, SetupAt, SetupTo, confVars, TypeOK, MainInv, BindInv
<1>13. ASSUME NEW s \in Setters, Set(s) PROVE WindowInv'
  <2>1. CASE SetRead(s)
    BY <2>1 DEF SetRead, confVars, TypeOK
  <2>2. CASE SetTruncate(s)
    BY <2>2 DEF SetTruncate, TruncateConf, SetterTo, TypeOK
  <2>3. CASE SetFill(s)
    BY <2>3 DEF SetFill, FillConf, Over, SetterTo, confVars, TypeOK
  <2> QED BY <1>13, <2>1, <2>2, <2>3 DEF Set
<1>14. CASE Query \/ ReadMain \/ Exec \/ Die
  BY <1>14 DEF Query, ReadMain, Exec, Die, confVars
<1>15. CASE RewriteTruncate \/ RewriteFill
  <2>1. main # Absent
    BY <1>15 DEF RewriteTruncate, RewriteFill, MainInv
  <2>2. /\ UNCHANGED <<conf, setup, setter, readable>>
        /\ interrupted \subseteq interrupted'
    BY <1>15 DEF RewriteTruncate, RewriteFill, confVars
  <2> QED BY <2>1, <2>2
<1>16. CASE Crash
  BY <1>16 DEF Crash, HalfWritten, SetupAt, SetupTo, confVars, TypeOK
<1>17. CASE UNCHANGED vars
  BY <1>17 DEF vars
<1> QED
  BY <1>1, <1>2, <1>3, <1>4, <1>5, <1>6, <1>7, <1>8, <1>9, <1>10, <1>11, <1>12, <1>13, <1>14, <1>15, <1>16, <1>17
     DEF Next, Setup, Daemon

-----------------------------------------------------------------------------
(* The theorems.                                                            *)

LEMMA InitialInv == Init => HostInv
<1> SUFFICES ASSUME Init PROVE HostInv
  OBVIOUS
<1>1. OldMain \in Mains /\ OldMain.setup = 0
  BY DEF OldMain, Mains
<1>2. daemon \in Daemons /\ daemon.listed = FALSE /\ daemon.pc \in {"stopped", "waiting"}
  <2>1. daemon = Fresh("stopped") \/ daemon = Fresh("waiting")
    BY DEF Init
  <2>2. CASE daemon = Fresh("stopped")
    BY <1>1, <2>2 DEF Fresh, Daemons, DaemonLabels
  <2>3. CASE daemon = Fresh("waiting")
    BY <1>1, <2>3 DEF Fresh, Daemons, DaemonLabels
  <2> QED BY <2>1, <2>2, <2>3
<1>3. setup = [pc |-> "idle", bind |-> Default]
      /\ setter = [s \in Setters |-> [pc |-> "idle", value |-> Default]]
      /\ setups = 0 /\ crashes = 0 /\ interrupted = {} /\ overlapped = FALSE
  BY DEF Init
<1>4. /\ main \in {Absent} \cup Mains /\ conf \in {Absent} \cup Addresses
      /\ readable \subseteq Files /\ lastFill = conf
      /\ main \in Mains => main.setup = 0
      /\ registered \in BOOLEAN /\ leftover \in BOOLEAN
  BY <1>1, Distinct, HostAssumption DEF Init
<1>5. TypeOK
  <2>1. role \in {"server", "agent"}
    BY DEF Init
  <2>2. setup \in [pc : SetupLabels, bind : {Default} \cup Addresses] /\ SetupAt("idle")
    BY <1>3 DEF SetupLabels, SetupAt
  <2>3. /\ setter \in [Setters -> [pc : {"idle", "truncate", "fill", "done", "failed"},
                                  value : {Default} \cup Addresses]]
        /\ \A s \in Setters : setter[s].pc = "idle"
    BY <1>3
  <2>4. 0 \in 0..MaxSetups /\ 0 \in 0..MaxCrashes
    BY HostAssumption
  <2> QED BY <1>2, <1>3, <1>4, <2>1, <2>2, <2>3, <2>4 DEF TypeOK
<1>6. MainInv /\ MainIsLastSetup
  BY <1>2, <1>3, <1>4, Distinct DEF MainInv, MainIsLastSetup, SetupAt
<1>7. FillInv /\ GetIsLastSet
  BY <1>3, <1>4 DEF FillInv, GetIsLastSet, ConfWriters, SetupAt
<1>8. BindInv
  BY <1>1, <1>2, <1>3, Distinct DEF Init, BindInv, ConfThere, SetupAt
<1>9. WindowInv
  BY <1>3, HostAssumption DEF Init, WindowInv, ConfThere, SetupAt
<1> QED BY <1>5, <1>6, <1>7, <1>8, <1>9 DEF HostInv

(* The invariant holds in every state, whatever the order in which the      *)
(* setup, the runs of config set and service-discoverd take their steps.    *)
THEOREM Invariance == Spec => []HostInv
<1>1. HostInv /\ [Next]_vars => HostInv'
  BY TypeStep, MainStep, FillStep, BindStep, WindowStep DEF HostInv
<1> QED BY InitialInv, <1>1, PTL DEF Spec

(* Type correctness.                                                        *)
THEOREM TypeCorrect == Spec => []TypeOK
<1>1. HostInv => TypeOK
  BY DEF HostInv
<1> QED BY Invariance, <1>1, PTL

(* main.json is the last setup's, and whole unless its writer is at work or *)
(* was stopped: service-discoverd never puts back an earlier one.           *)
THEOREM MainIsNeverPutBack == Spec => []MainIsLastSetup
<1>1. HostInv => MainIsLastSetup
  BY DEF HostInv
<1> QED BY Invariance, <1>1, PTL

(* config get shows what was set last, unless writers met or were stopped.  *)
THEOREM GetShowsTheLastSet == Spec => []GetIsLastSet
<1>1. HostInv => GetIsLastSet
  BY DEF HostInv
<1> QED BY Invariance, <1>1, PTL

(* However early the unit is started, Consul runs on the address that was   *)
(* chosen: a server's but for a leftover entry or a config.json left empty, *)
(* an agent's but for a start between main.json and config.json.            *)
THEOREM HostsBindAsChosen == Spec => BindsChosen
<1> DEFINE Bound ==
      daemon.pc # "running" /\ daemon'.pc = "running" /\ daemon'.bound = Default =>
        \/ \E s \in Setters : setter[s].pc = "fill"
        \/ "conf" \in interrupted
        \/ (role = "agent" \/ leftover) /\ setup.pc \in {"conf", "confFill", "failed"}
<1>1. HostInv /\ [Next]_vars => Bound
  <2> SUFFICES ASSUME HostInv, Next, daemon.pc # "running", daemon'.pc = "running",
                      daemon'.bound = Default
               PROVE  Bound
    BY DEF vars
  <2>1. daemon \in Daemons
    BY DEF HostInv, TypeOK
  <2>2. Exec
    <3>1. CASE Setup
      BY <3>1, <2>1 DEF Setup, Begin, TruncateMain, FillMain, HandOverMain, HandOver,
            TruncateBind, FillBind, HandOverConf, Register, StartUnit, UnitStarted,
            SetupFails, Reset, NewDaemon, Fresh
    <3>2. CASE \E s \in Setters : Set(s)
      BY <3>2, <2>1 DEF Set, SetRead, SetTruncate, SetFill
    <3>3. CASE Query \/ RewriteTruncate
      BY <3>3, <2>1 DEF Daemons, Query, RewriteTruncate
    <3>4. CASE ReadMain \/ RewriteFill
      <4>1. TypeOK
        BY DEF HostInv
      <4>2. daemon' # Fresh("waiting")
        BY DEF Fresh
      <4>3. CASE ReadMain
        BY <4>1, <4>2, <4>3, <2>1, DaemonOutcomes DEF Daemons
      <4>4. CASE RewriteFill
        BY <4>1, <4>2, <4>4, <2>1, DaemonOutcomes DEF Daemons
      <4> QED BY <3>4, <4>3, <4>4
    <3>5. CASE Die \/ Crash
      BY <3>5 DEF Die, Crash, NewDaemon, Fresh
    <3> QED BY <3>1, <3>2, <3>3, <3>4, <3>5 DEF Next, Daemon
  <2>3. TypeOK /\ BindInv /\ WindowInv
    BY DEF HostInv
  <2>4. PICK a \in MayBindTo : /\ daemon.listed = (role = "server")
                               /\ daemon' = [daemon EXCEPT !.pc = "running", !.bound = a]
    <3>1. daemon' # Fresh("waiting")
      BY DEF Fresh
    <3> QED BY <2>2, <2>3, <3>1, DaemonOutcomes
  <2>5. a = Default /\ (role = "server" => registered)
    BY <2>1, <2>3, <2>4 DEF BindInv, Daemons
  <2>6. conf \in {Absent, Empty} /\ main # Absent /\ "main" \in readable
    BY <2>3, <2>4, <2>5, HostAssumption DEF MayBindTo, TypeOK
  <2>7. CASE ConfThere
    BY <2>6, <2>7, HostAssumption DEF ConfThere
  <2>8. CASE ~ConfThere
    <3>1. setup.pc \in {"conf", "confFill", "failed"}
      BY <2>3, <2>6, <2>8 DEF WindowInv
    <3>2. role = "agent" \/ leftover
      BY <2>3, <2>5, <2>8 DEF BindInv, TypeOK
    <3> QED BY <3>1, <3>2
  <2> QED BY <2>7, <2>8
<1>2. []HostInv /\ [][Next]_vars => [][Bound]_vars
  BY <1>1, PTL
<1>3. [][Bound]_vars => BindsChosen
  BY PTL DEF BindsChosen
<1> QED BY Invariance, <1>2, <1>3, PTL DEF Spec
-----------------------------------------------------------------------------
(* The promise of Units.                                                    *)

(* What the daemon of an agent has read of LDAP stays so.                   *)
LEMMA ListedStep == TypeOK /\ ListedInv /\ [Next]_vars => ListedInv'
<1> SUFFICES ASSUME TypeOK, ListedInv, [Next]_vars PROVE ListedInv'
  OBVIOUS
<1>1. role' = role
  BY DEF Next, Setup, Begin, TruncateMain, FillMain, HandOverMain, HandOver, TruncateBind,
     FillBind, HandOverConf, Register, StartUnit, UnitStarted, SetupFails, Reset,
     Set, SetRead, SetTruncate, SetFill, Daemon, Query, ReadMain, RewriteTruncate,
     RewriteFill, Exec, Die, Crash, vars
<1>2. SetupAt("register")' => role = "server"
  <2>1. CASE HandOverConf
    BY <2>1 DEF HandOverConf, HandOver, SetupTo, SetupAt, TypeOK
  <2>2. CASE setup' = setup
    BY <2>2 DEF ListedInv, SetupAt
  <2>3. CASE setup'.pc # "register"
    BY <2>3 DEF SetupAt
  <2>4. ASSUME Setup, ~HandOverConf PROVE setup'.pc # "register"
    BY <2>4 DEF SetupTo, TypeOK, Setup, Begin, TruncateMain, FillMain, HandOverMain,
       HandOver, TruncateBind, FillBind, Register, StartUnit, UnitStarted, SetupFails, Reset
  <2>5. CASE Crash
    <3>1. setup' = setup \/ setup' = [setup EXCEPT !.pc = "failed"]
      BY <2>5 DEF Crash, SetupTo
    <3> QED BY <2>2, <2>3, <3>1 DEF TypeOK
  <2>6. ASSUME (\E s \in Setters : Set(s)) \/ Daemon \/ Die PROVE setup' = setup
    BY <2>6 DEF Set, SetRead, SetTruncate, SetFill, Daemon, Query, ReadMain,
       RewriteTruncate, RewriteFill, Exec, Die
  <2>7. UNCHANGED vars => setup' = setup
    BY DEF vars
  <2> QED BY <2>1, <2>2, <2>3, <2>4, <2>5, <2>6, <2>7 DEF Next
<1>3. role = "agent" => registered' = registered
  BY DEF ListedInv, Next, Setup, Begin, TruncateMain, FillMain,
     HandOverMain, HandOver, TruncateBind, FillBind, HandOverConf, Register, StartUnit,
     UnitStarted, SetupFails, Reset, Set, SetRead, SetTruncate, SetFill, Daemon, Query,
     ReadMain, RewriteTruncate, RewriteFill, Exec, Die, Crash, vars
<1>4. \/ daemon'.pc \notin {"read", "truncate", "fill", "exec"}
      \/ daemon'.listed = registered
      \/ daemon'.listed = daemon.listed /\ daemon.pc \in {"read", "truncate", "fill", "exec"}
  <2>1. daemon \in Daemons
    BY DEF TypeOK
  <2>2. CASE daemon' = daemon
    BY <2>2
  <2>3. CASE \E label \in {"stopped", "waiting"} : daemon' = Fresh(label)
    <3>1. daemon'.pc \in {"stopped", "waiting"}
      BY <2>3 DEF Fresh
    <3> QED BY <3>1
  <2>4. CASE Query
    BY <2>1, <2>4 DEF Query, Daemons
  <2>5. CASE RewriteTruncate
    BY <2>1, <2>5 DEF RewriteTruncate, Daemons
  <2>6. CASE ReadMain
    <3>1. daemon.pc = "read"
      BY <2>6 DEF ReadMain
    <3>2. CASE daemon' # Fresh("waiting")
      <4>1. daemon'.listed = daemon.listed
        BY <2>1, <2>6, <3>2, DaemonOutcomes DEF Daemons
      <4> QED BY <3>1, <4>1
    <3> QED BY <2>3, <3>2
  <2>9. CASE RewriteFill
    <3>1. daemon.pc = "fill"
      BY <2>9 DEF RewriteFill
    <3>2. CASE daemon' # Fresh("waiting")
      <4>1. daemon'.listed = daemon.listed
        BY <2>1, <2>9, <3>2, DaemonOutcomes DEF Daemons
      <4> QED BY <3>1, <4>1
    <3> QED BY <2>3, <3>2
  <2>10. CASE Exec
    <3>1. CASE daemon' # Fresh("waiting")
      <4>1. daemon'.pc = "running"
        BY <2>1, <2>10, <3>1, DaemonOutcomes DEF Daemons
      <4> QED BY <4>1
    <3> QED BY <2>3, <3>1
  <2>7. ASSUME Setup \/ (\E s \in Setters : Set(s)) \/ Die \/ Crash
        PROVE  daemon' = daemon \/ \E label \in {"stopped", "waiting"} : daemon' = Fresh(label)
    BY <2>7 DEF NewDaemon, Setup, Begin, TruncateMain, FillMain, HandOverMain, HandOver,
       TruncateBind, FillBind, HandOverConf, Register, StartUnit, UnitStarted, SetupFails,
       Reset, Set, SetRead, SetTruncate, SetFill, Die, Crash
  <2>8. UNCHANGED vars => daemon' = daemon
    BY DEF vars
  <2> QED BY <2>2, <2>3, <2>4, <2>5, <2>6, <2>7, <2>8, <2>9, <2>10 DEF Next, Daemon
<1> QED BY <1>1, <1>2, <1>3, <1>4 DEF ListedInv

(* The state of the unit, as Units sees it.                                 *)
Label(d) == IF d.pc = "stopped" THEN "stopped" ELSE IF d.pc = "running" THEN "up" ELSE "starting"

LEMMA Mapping ==
  /\ UnitsOf!vars = <<{h \in ThisHost : role = "server"}, {h \in ThisHost : main # Absent},
                      {h \in ThisHost : registered}, [h \in ThisHost |-> Label(daemon)]>>
  /\ [h \in ThisHost |-> CASE daemon.pc = "stopped" -> "stopped"
                            [] daemon.pc = "running" -> "up"
                            [] OTHER -> "starting"] = [h \in ThisHost |-> Label(daemon)]
BY DEF UnitsOf!vars, Label, ThisHost

(* A step of the host that Units sees is one of its actions.                *)
LEMMA UnitsStep == HostInv /\ ListedInv /\ [Next]_vars => [UnitsOf!Next]_(UnitsOf!vars)
<1> SUFFICES ASSUME HostInv, ListedInv, [Next]_vars
             PROVE  UnitsOf!Next \/ UNCHANGED UnitsOf!vars
  OBVIOUS
<1> USE DEF ThisHost
<1>i. TypeOK /\ MainInv /\ BindInv
  BY DEF HostInv
<1>a. ASSUME UNCHANGED <<role, registered>>, (main' = Absent) <=> (main = Absent),
             Label(daemon') = Label(daemon)
      PROVE  UNCHANGED UnitsOf!vars
  BY <1>a, Mapping DEF UnitsOf!vars, Label
<1>b. ASSUME UNCHANGED <<role, registered>>, (main' = Absent) <=> (main = Absent),
             Label(daemon') \in {"stopped", "starting"}
      PROVE  UnitsOf!Next
  BY <1>b DEF UnitsOf!Next, UnitsOf!Down, Label
<1>1. CASE TruncateMain
  <2>1. main = Absent /\ main' # Absent /\ UNCHANGED <<role, registered, daemon>>
    BY <1>1, <1>i, HostAssumption DEF TruncateMain, MainInv
  <2>2. UnitsOf!Configure("host")
    BY <2>1 DEF UnitsOf!Configure
  <2> QED BY <2>2 DEF UnitsOf!Next
<1>2. CASE Register
  <2>1. /\ role = "server" /\ main # Absent /\ registered'
        /\ UNCHANGED <<role, main, daemon>>
    BY <1>2, <1>i DEF Register, MainInv, ListedInv, SetupAt
  <2>2. UnitsOf!Enrol("host")
    BY <2>1 DEF UnitsOf!Enrol
  <2> QED BY <2>2 DEF UnitsOf!Next
<1>3. CASE StartUnit
  <2>1. UNCHANGED <<role, registered, main>>
    BY <1>3 DEF StartUnit
  <2>2. daemon' = daemon \/ Label(daemon') = "starting"
    BY <1>3 DEF StartUnit, NewDaemon, Fresh, Label
  <2> QED BY <1>a, <1>b, <2>1, <2>2
<1>4. CASE Reset
  <2>1. main' = Absent /\ daemon'.pc = "stopped" /\ UNCHANGED <<role, registered>>
    BY <1>4 DEF Reset, NewDaemon, Fresh
  <2>2. UnitsOf!Reset("host")
    BY <2>1 DEF UnitsOf!Reset
  <2> QED BY <2>2 DEF UnitsOf!Next
<1>5. CASE Begin \/ HandOverMain \/ TruncateBind \/ FillBind \/ HandOverConf
           \/ UnitStarted \/ SetupFails
  <2>1. UNCHANGED <<role, registered, daemon, main>>
    BY <1>5 DEF Begin, HandOverMain, HandOver, TruncateBind, FillBind, HandOverConf,
       UnitStarted, SetupFails
  <2> QED BY <1>a, <2>1
<1>6. CASE FillMain
  <2>1. main = Empty /\ main' = [setup |-> setups, grpc |-> TRUE]
        /\ UNCHANGED <<role, registered, daemon>>
    BY <1>6, <1>i DEF FillMain, MainInv
  <2>2. main # Absent /\ main' # Absent
    <3>1. setups \in Nat
      BY <1>i, HostAssumption DEF TypeOK
    <3> QED BY <2>1, <3>1, Distinct
  <2> QED BY <1>a, <2>1, <2>2
<1>7. ASSUME NEW s \in Setters, Set(s) PROVE UNCHANGED UnitsOf!vars
  <2>1. UNCHANGED <<role, registered, daemon, main>>
    BY <1>7 DEF Set, SetRead, SetTruncate, SetFill
  <2> QED BY <1>a, <2>1
<1>8. CASE Query \/ Die \/ Crash
  <2>1. UNCHANGED <<role, registered, main>>
    BY <1>8 DEF Query, Die, Crash
  <2>2. Label(daemon') \in {"stopped", "starting"}
    <3>1. CASE Query
      BY <3>1, <1>i DEF Query, Label, TypeOK, Daemons
    <3>2. CASE \E label \in {"waiting", "stopped"} : daemon' = Fresh(label)
      BY <3>2 DEF Fresh, Label
    <3> QED BY <1>8, <3>1, <3>2 DEF Die, Crash, NewDaemon
  <2> QED BY <1>b, <2>1, <2>2
<1>9. CASE ReadMain \/ RewriteTruncate \/ RewriteFill
  <2>1. \/ UNCHANGED <<role, registered>> /\ main # Absent /\ main' # Absent
        \/ UNCHANGED <<role, registered, main>>
    BY <1>9, <1>i, Distinct, HostAssumption
    DEF ReadMain, RewriteTruncate, RewriteFill, MainInv, TypeOK, Daemons, Mains
  <2>2. Label(daemon') = "starting"
    <3>1. CASE RewriteTruncate
      BY <3>1, <1>i DEF RewriteTruncate, TypeOK, Daemons, Label
    <3>2. CASE daemon' = Fresh("waiting")
      BY <3>2 DEF Fresh, Label
    <3> QED BY <1>9, <1>i, <3>1, <3>2, DaemonOutcomes DEF Label, TypeOK, Daemons
  <2> QED BY <1>b, <2>1, <2>2
<1>10. CASE Exec
  <2>1. UNCHANGED <<role, registered, main>>
    BY <1>10 DEF Exec
  <2>2. CASE daemon' = Fresh("waiting")
    BY <1>b, <2>1, <2>2 DEF Fresh, Label
  <2>3. ASSUME NEW a \in MayBindTo, daemon.listed = (role = "server"),
               daemon' = [daemon EXCEPT !.pc = "running", !.bound = a]
        PROVE  UnitsOf!Next
    <3>1. main # Absent
      BY <2>3 DEF MayBindTo
    <3>2. registered = (role = "server")
      BY <1>10, <1>i, <2>3 DEF BindInv, ListedInv, TypeOK, Exec
    <3>3. Label(daemon) = "starting" /\ Label(daemon') = "up"
      BY <1>10, <1>i, <2>3 DEF Exec, TypeOK, Daemons, Label
    <3>4. UnitsOf!Up("host")
      BY <2>1, <3>1, <3>2, <3>3 DEF UnitsOf!Up, Label
    <3> QED BY <3>4 DEF UnitsOf!Next
  <2> QED BY <1>10, <1>i, <2>2, <2>3, DaemonOutcomes
<1>11. CASE UNCHANGED vars
  BY <1>a, <1>11 DEF vars
<1> QED
  BY <1>1, <1>2, <1>3, <1>4, <1>5, <1>6, <1>7, <1>8, <1>9, <1>10, <1>11
  DEF Next, Setup, Daemon

(* However the setup, resets, the daemon and systemd interleave on a host,  *)
(* it keeps its half of what the hosts of a cluster rely on.                *)
THEOREM KeepsUnits == Spec => ImplementsUnits
<1>1. Init => UnitsOf!Init /\ ListedInv
  <2> SUFFICES ASSUME Init PROVE UnitsOf!Init /\ ListedInv
    OBVIOUS
  <2>1. daemon.pc \in {"stopped", "waiting"} /\ setup.pc = "idle"
    BY DEF Init, Fresh
  <2> QED BY <2>1 DEF UnitsOf!Init, ListedInv, SetupAt, ThisHost
<1>2. HostInv => TypeOK
  BY DEF HostInv
<1> QED
  BY <1>1, <1>2, Invariance, ListedStep, UnitsStep, PTL
  DEF Spec, ImplementsUnits, UnitsOf!Spec
=============================================================================
