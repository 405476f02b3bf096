---------------------------- MODULE ProgressProofs ----------------------------
(***************************************************************************)
(* Theorems about the parts that MCProgress runs: MindIdentity, for any     *)
(* number of processes, CodexTerminal, for any terminals, threads and       *)
(* rotations, and DiscordChannel, for any requests and channels.            *)
(***************************************************************************)
EXTENDS MCProgress, TLAPS

-----------------------------------------------------------------------------
(* MindIdentity: any number of processes of the mind.                       *)

\* A process that serves has a token; without it, what it registers has no type.
ServingHasToken == \A p \in Procs : proc[p] = "serving" => token[p] \in Procs

IdentityTyped == IdentityTypeOK /\ ServingHasToken

LEMMA IdentityTypedStep ==
    ASSUME IdentityTyped, [IdentityNext]_identityVars
    PROVE  IdentityTyped'
<1> USE DEF IdentityTyped, ServingHasToken, IdentityTypeOK, Alive, Filling, Goes, Settles, fileVars, gatewayVars
<1>1. ASSUME NEW p \in Procs, Start(p)  PROVE IdentityTyped'
  BY <1>1 DEF Start
<1>2. ASSUME NEW p \in Procs, ReadToken(p)  PROVE IdentityTyped'
  BY <1>2 DEF ReadToken
<1>3. ASSUME NEW p \in Procs, Create(p)  PROVE IdentityTyped'
  BY <1>3 DEF Create
<1>4. ASSUME NEW p \in Procs, WriteToken(p)  PROVE IdentityTyped'
  BY <1>4 DEF WriteToken
<1>5. ASSUME NEW p \in Procs, Adopt(p)  PROVE IdentityTyped'
  <2>1. CASE tokenFile \in Procs /\ Settles(p, tokenFile) /\ UNCHANGED contested
    BY <1>5, <2>1 DEF Adopt
  <2>2. CASE Goes(p, "adopt", "reclaim") /\ UNCHANGED token
             /\ contested' = (contested \/ \E q \in Procs : proc[q] \in Filling)
    <3>1. contested' \in BOOLEAN
      BY <2>2
    <3> QED  BY <1>5, <2>2, <3>1 DEF Adopt
  <2> QED  BY <1>5, <2>1, <2>2 DEF Adopt
<1>6. ASSUME NEW p \in Procs, Truncate(p)  PROVE IdentityTyped'
  BY <1>6 DEF Truncate
<1>7. ASSUME NEW p \in Procs, Kill(p)  PROVE IdentityTyped'
  BY <1>7 DEF Kill
<1>8. ASSUME NEW p \in Procs, Register(p)  PROVE IdentityTyped'
  <2>1. token[p] \in Procs
    BY <1>8 DEF Register
  <2>2. known' \in Procs \cup {NoToken} /\ late' \in SUBSET Procs
    BY <1>8, <2>1 DEF Register
  <2> QED  BY <1>8, <2>2 DEF Register
<1>9. ASSUME NEW p \in Procs, Wake(p)  PROVE IdentityTyped'
  BY <1>9 DEF Wake
<1>10. CASE Ages
  <2>1. contested' \in BOOLEAN
    BY <1>10 DEF Ages
  <2> QED  BY <1>10, <2>1 DEF Ages
<1>11. CASE CommsChange
  BY <1>11 DEF CommsChange
<1>12. CASE ArrivesLate
  BY <1>12 DEF ArrivesLate
<1>13. CASE GatewayForgets
  BY <1>13 DEF GatewayForgets
<1>14. CASE UNCHANGED identityVars
  BY <1>14 DEF identityVars
<1> QED
  BY <1>1, <1>2, <1>3, <1>4, <1>5, <1>6, <1>7, <1>8, <1>9, <1>10, <1>11, <1>12, <1>13, <1>14
     DEF IdentityNext, ProcStep

LEMMA IdentityTypedInit == IdentityInit => IdentityTyped
BY DEF IdentityInit, IdentityTyped, IdentityTypeOK, ServingHasToken

\* The state stays in its types, and what is registered is always a token.
THEOREM IdentityTypeCorrect == IdentitySpec => []IdentityTypeOK
<1>1. IdentityTyped => IdentityTypeOK
  BY DEF IdentityTyped
<1> QED  BY <1>1, IdentityTypedInit, IdentityTypedStep, PTL DEF IdentitySpec

-----------------------------------------------------------------------------
(* One token. While no two processes are to fill the file at once, the one    *)
(* that is finds it empty, and so nobody serves; whoever serves has found or  *)
(* written what is on disk.                                                   *)

ServedIsOnDisk == \A p \in Procs : proc[p] = "serving" => token[p] = tokenFile
FilledIsEmpty == \A p \in Procs : proc[p] \in Filling => tokenFile = "empty"
OneFills == \A p, q \in Procs : proc[p] \in Filling /\ proc[q] \in Filling => p = q

OneToken == ~contested => ServedIsOnDisk /\ FilledIsEmpty /\ OneFills

\* A file that holds no token is enforced by nobody.
LEMMA NobodyServes ==
    ASSUME IdentityTyped, ServedIsOnDisk, tokenFile \in {"absent", "empty"}
    PROVE  \A p \in Procs : proc[p] # "serving"
BY TokensAssumption DEF IdentityTyped, ServingHasToken, ServedIsOnDisk

\* A file that is missing or has a token is filled by nobody.
LEMMA NobodyFills ==
    ASSUME FilledIsEmpty, tokenFile \in Procs \cup {"absent"}
    PROVE  \A p \in Procs : proc[p] \notin Filling
BY TokensAssumption DEF FilledIsEmpty

LEMMA OneTokenRead ==
    ASSUME IdentityTyped, OneToken, NEW p \in Procs, Start(p) \/ ReadToken(p)
    PROVE  OneToken'
BY DEF IdentityTyped, IdentityTypeOK, OneToken, ServedIsOnDisk, FilledIsEmpty, OneFills, Filling,
       Start, ReadToken, Goes, Settles, fileVars

LEMMA OneTokenCreate ==
    ASSUME IdentityTyped, OneToken, NEW p \in Procs, Create(p)
    PROVE  OneToken'
<1>1. SUFFICES ASSUME ~contested  PROVE (ServedIsOnDisk /\ FilledIsEmpty /\ OneFills)'
  BY DEF OneToken, Create
<1>2. CASE tokenFile = "absent"
  <2>1. \A q \in Procs : proc[q] # "serving" /\ proc[q] \notin Filling
    BY <1>1, <1>2, NobodyServes, NobodyFills DEF OneToken
  <2> QED
    BY <1>2, <2>1 DEF Create, Goes, IdentityTyped, IdentityTypeOK, ServedIsOnDisk, FilledIsEmpty,
                      OneFills, Filling
<1>3. CASE tokenFile # "absent"
  BY <1>1, <1>3 DEF Create, Goes, IdentityTyped, IdentityTypeOK, OneToken, ServedIsOnDisk,
                    FilledIsEmpty, OneFills, Filling
<1> QED  BY <1>2, <1>3

LEMMA OneTokenWrite ==
    ASSUME IdentityTyped, OneToken, NEW p \in Procs, WriteToken(p)
    PROVE  OneToken'
<1>1. SUFFICES ASSUME ~contested  PROVE (ServedIsOnDisk /\ FilledIsEmpty /\ OneFills)'
  BY DEF OneToken, WriteToken
<1>2. proc[p] \in Filling /\ tokenFile = "empty"
  BY <1>1 DEF WriteToken, Filling, OneToken, FilledIsEmpty
<1>3. \A q \in Procs : proc[q] # "serving" /\ (q # p => proc[q] \notin Filling)
  BY <1>1, <1>2, NobodyServes DEF OneToken, OneFills
<1> QED
  BY <1>3 DEF WriteToken, Settles, IdentityTyped, IdentityTypeOK, ServedIsOnDisk, FilledIsEmpty,
              OneFills, Filling

LEMMA OneTokenAdopt ==
    ASSUME IdentityTyped, OneToken, NEW p \in Procs, Adopt(p)
    PROVE  OneToken'
<1>1. SUFFICES ASSUME ~contested'  PROVE (ServedIsOnDisk /\ FilledIsEmpty /\ OneFills)'
  BY DEF OneToken
<1>2. ~contested
  BY <1>1 DEF Adopt
<1>3. CASE tokenFile \in Procs /\ Settles(p, tokenFile)
  BY <1>2, <1>3 DEF Adopt, Settles, IdentityTyped, IdentityTypeOK, OneToken, ServedIsOnDisk,
                    FilledIsEmpty, OneFills, Filling
<1>4. CASE /\ tokenFile = "empty" /\ Goes(p, "adopt", "reclaim") /\ UNCHANGED token
           /\ contested' = (contested \/ \E q \in Procs : proc[q] \in Filling)
  <2>1. \A q \in Procs : proc[q] \notin Filling
    BY <1>1, <1>4
  <2> QED
    BY <1>2, <1>4, <2>1 DEF Adopt, Goes, IdentityTyped, IdentityTypeOK, OneToken, ServedIsOnDisk,
                            FilledIsEmpty, OneFills, Filling
<1> QED  BY <1>3, <1>4 DEF Adopt

LEMMA OneTokenTruncate ==
    ASSUME IdentityTyped, OneToken, NEW p \in Procs, Truncate(p)
    PROVE  OneToken'
<1>1. SUFFICES ASSUME ~contested  PROVE (ServedIsOnDisk /\ FilledIsEmpty /\ OneFills)'
  BY DEF OneToken, Truncate
<1>2. proc[p] \in Filling /\ tokenFile = "empty" /\ tokenFile' = tokenFile
  BY <1>1 DEF Truncate, Goes, Filling, OneToken, FilledIsEmpty
<1> QED
  BY <1>1, <1>2 DEF Truncate, Goes, IdentityTyped, IdentityTypeOK, OneToken, ServedIsOnDisk,
                    FilledIsEmpty, OneFills, Filling

\* Nor does a killed process fill the file, or serve.
LEMMA OneTokenKill ==
    ASSUME IdentityTyped, OneToken, NEW p \in Procs, Kill(p)
    PROVE  OneToken'
BY DEF Kill, fileVars, IdentityTyped, IdentityTypeOK, OneToken, ServedIsOnDisk, FilledIsEmpty,
       OneFills, Filling

LEMMA OneTokenStep ==
    ASSUME IdentityTyped, OneToken, [IdentityNext]_identityVars
    PROVE  OneToken'
<1>1. CASE UNCHANGED <<proc, token, fileVars>>
  BY <1>1 DEF fileVars, OneToken, ServedIsOnDisk, FilledIsEmpty, OneFills
<1>2. CASE Ages
  BY <1>2 DEF Ages, OneToken, ServedIsOnDisk, FilledIsEmpty, OneFills
<1>3. ASSUME NEW p \in Procs, Register(p) \/ Wake(p)  PROVE UNCHANGED <<proc, token, fileVars>>
  BY <1>3 DEF Register, Wake
<1>4. CASE CommsChange \/ ArrivesLate \/ GatewayForgets
  BY <1>1, <1>4 DEF CommsChange, ArrivesLate, GatewayForgets
<1>5. CASE UNCHANGED identityVars
  BY <1>1, <1>5 DEF identityVars, fileVars
<1> QED
  BY <1>1, <1>2, <1>3, <1>4, <1>5, OneTokenRead, OneTokenCreate, OneTokenWrite, OneTokenAdopt,
     OneTokenTruncate, OneTokenKill DEF IdentityNext, ProcStep

\* Every process of the mind enforces the token on disk, for any number of
\* starts and kills at any point, while no two would fill the file at once.
THEOREM TokensAgreeCorrect == IdentitySpec => []TokensAgree
<1>1. IdentityInit => OneToken
  BY DEF IdentityInit, OneToken, ServedIsOnDisk, FilledIsEmpty, OneFills, Filling
<1>2. IdentityTyped /\ OneToken /\ [IdentityNext]_identityVars => (IdentityTyped /\ OneToken)'
  BY IdentityTypedStep, OneTokenStep
<1>3. OneToken => TokensAgree
  BY DEF OneToken, ServedIsOnDisk, TokensAgree
<1> QED  BY <1>1, <1>2, <1>3, IdentityTypedInit, PTL DEF IdentitySpec

-----------------------------------------------------------------------------
(* CodexTerminal: any number of terminals, threads and rotations.           *)

LEMMA WatcherType ==
    ASSUME TerminalTypeOK, NEW s \in Terminals, era[s] < MaxEras, NEW before \in SUBSET Threads
    PROVE  /\ Watcher(s, before) \in [of : Terminals, era : 0 .. MaxEras, before : SUBSET Threads]
           /\ Watcher(s, before).of = s /\ Watcher(s, before).before = before
  BY TerminalsAssumption DEF TerminalTypeOK, Watcher

LEMMA TerminalTypeStep ==
    ASSUME TerminalTypeOK, [TerminalNext]_terminalVars
    PROVE  TerminalTypeOK'
<1> USE TerminalsAssumption DEF TerminalTypeOK, Threads
<1>1. ASSUME NEW s \in Terminals, OpenResumed(s)  PROVE TerminalTypeOK'
  <2>1. Wanted(s) \in 1 .. MaxThreads
    BY <1>1 DEF OpenResumed
  <2> QED  BY <1>1, <2>1 DEF OpenResumed
<1>2. ASSUME NEW s \in Terminals, OpenBare(s) \/ Rotate(s)  PROVE TerminalTypeOK'
  <2>1. BeginsBare(s, rollouts)
    BY <1>2 DEF OpenBare, Rotate
  <2>2. /\ era' \in [Terminals -> 0 .. MaxEras]
        /\ pane' \in [Terminals -> Threads \cup {Bare, NoPane}]
        /\ mixed' \subseteq Terminals /\ refused' \subseteq Terminals
    BY <2>1 DEF BeginsBare
  <2>3. watchers' \subseteq [of : Terminals, era : 0 .. MaxEras, before : SUBSET Threads]
    BY <2>1, WatcherType DEF BeginsBare
  <2> QED  BY <1>2, <2>2, <2>3 DEF OpenBare, Rotate, NoThread
<1>3. ASSUME NEW s \in Terminals, Reattach(s)  PROVE TerminalTypeOK'
  BY <1>3 DEF Reattach
<1>4. ASSUME NEW s \in Terminals, FirstTurn(s)  PROVE TerminalTypeOK'
  <2>1. minted + 1 \in 1 .. MaxThreads
    BY <1>4 DEF FirstTurn
  <2>2. mixed' \subseteq Terminals
    BY <1>4 DEF FirstTurn
  <2>3. origin' \in [Threads -> (Terminals \X (0 .. MaxEras)) \cup {<< >>}]
    BY <1>4, <2>1 DEF FirstTurn
  <2> QED  BY <1>4, <2>1, <2>2, <2>3 DEF FirstTurn
<1>5. ASSUME NEW s \in Terminals, PaneEnds(s)  PROVE TerminalTypeOK'
  BY <1>5 DEF PaneEnds
<1>6. ASSUME NEW w \in watchers, Watch(w)  PROVE TerminalTypeOK'
  <2>1. w.of \in Terminals /\ watchers' \subseteq watchers
    BY <1>6 DEF Watch
  <2>2. /\ thread' \in [Terminals -> Threads \cup {NoThread}]
        /\ reports' \subseteq [of : Terminals, thread : Threads]
    BY <1>6, <2>1 DEF Watch
  <2> QED  BY <1>6, <2>1, <2>2 DEF Watch
<1>7. CASE Redeployed
  BY <1>7 DEF Redeployed
<1>8. CASE UNCHANGED terminalVars
  BY <1>8 DEF terminalVars
<1>9. ASSUME NEW s \in Terminals, RotateRefused(s)  PROVE TerminalTypeOK'
  BY <1>9 DEF RotateRefused, NoThread
<1>10. ASSUME NEW p \in reports, Report(p)  PROVE TerminalTypeOK'
  <2>1. p.of \in Terminals /\ p.thread \in Threads /\ reports' \subseteq reports
    BY <1>10 DEF Report
  <2> QED  BY <1>10, <2>1 DEF Report
<1> QED
  BY <1>1, <1>2, <1>3, <1>4, <1>5, <1>6, <1>7, <1>8, <1>9, <1>10 DEF TerminalNext

LEMMA TerminalTypeInit == TerminalInit => TerminalTypeOK
  BY TerminalsAssumption DEF TerminalInit, TerminalTypeOK

\* Threads, panes, watchers and reports stay in their types, within the bounds.
THEOREM TerminalTypeCorrect == TerminalSpec => []TerminalTypeOK
  BY TerminalTypeInit, TerminalTypeStep, PTL DEF TerminalSpec

\* No thread is known before codex has minted it.
MintedFirst ==
  /\ \A t \in rollouts : t <= minted
  /\ \A s \in Terminals : thread[s] <= minted /\ gateway[s] <= minted
  /\ \A p \in reports : p.thread <= minted

\* What can be resumed, at the mind, at the gateway or on its way there, and what
\* a watcher may still take are threads of the session's conversation of now.
OwnOnly ==
  \A s \in Terminals \ mixed :
    /\ thread[s] \in rollouts => origin[thread[s]] = <<s, era[s]>>
    /\ gateway[s] \in rollouts => origin[gateway[s]] = <<s, era[s]>>
    /\ \A w \in watchers : w.of = s =>
         \A t \in rollouts \ w.before : origin[t] = <<s, era[s]>>
    /\ \A p \in reports : p.of = s /\ p.thread \in rollouts =>
         origin[p.thread] = <<s, era[s]>>

TerminalInv == TerminalTypeOK /\ MintedFirst /\ OwnOnly

LEMMA OwnBegins ==
    ASSUME TerminalInv, NEW s \in Terminals, OpenBare(s) \/ Rotate(s)
    PROVE  MintedFirst' /\ OwnOnly'
<1> USE DEF TerminalInv, MintedFirst, OwnOnly
<1>1. /\ era[s] < MaxEras /\ UNCHANGED <<rollouts, minted, reports, origin>>
      /\ era' = [era EXCEPT ![s] = @ + 1]
      /\ watchers' = watchers \cup {Watcher(s, rollouts)}
      /\ mixed' = IF Watched(s) \cup Reporting(s) = {} THEN mixed ELSE mixed \cup {s}
      /\ thread' = [thread EXCEPT ![s] = NoThread]
  BY DEF OpenBare, Rotate, BeginsBare
<1>2. \/ gateway' = gateway /\ gateway[s] \notin rollouts
      \/ gateway' = [gateway EXCEPT ![s] = NoThread]
  <2>1. CASE OpenBare(s)
    <3>1. NoThread \notin rollouts
      BY DEF TerminalTypeOK, Threads, NoThread
    <3> QED  BY <2>1, <3>1 DEF OpenBare, Wanted
  <2>2. CASE Rotate(s)
    BY <2>2 DEF Rotate
  <2> QED  BY <2>1, <2>2
<1>3. MintedFirst'
  BY <1>1, <1>2 DEF TerminalTypeOK, NoThread
<1>4. ASSUME NEW q \in Terminals, q \notin mixed'
      PROVE  /\ thread'[q] \in rollouts' => origin'[thread'[q]] = <<q, era'[q]>>
             /\ gateway'[q] \in rollouts' => origin'[gateway'[q]] = <<q, era'[q]>>
             /\ \A w \in watchers' : w.of = q =>
                  \A t \in rollouts' \ w.before : origin'[t] = <<q, era'[q]>>
             /\ \A p \in reports' : p.of = q /\ p.thread \in rollouts' =>
                  origin'[p.thread] = <<q, era'[q]>>
  <2>1. q \notin mixed
    BY <1>1, <1>4
  <2>2. Watcher(s, rollouts).of = s /\ Watcher(s, rollouts).before = rollouts
    BY <1>1, WatcherType DEF TerminalTypeOK
  <2>3. CASE q = s
    <3>1. (\A w \in watchers : w.of # s) /\ (\A p \in reports : p.of # s)
      BY <1>1, <1>4, <2>3 DEF Watched, Reporting
    <3>2. thread'[s] \notin rollouts /\ gateway'[s] \notin rollouts
      BY <1>1, <1>2 DEF TerminalTypeOK, Threads, NoThread
    <3> QED  BY <1>1, <2>2, <2>3, <3>1, <3>2
  <2>4. CASE q # s
    <3>1. thread'[q] = thread[q] /\ gateway'[q] = gateway[q] /\ era'[q] = era[q]
      BY <1>1, <1>2, <2>4 DEF TerminalTypeOK
    <3>2. \A w \in watchers' : w.of = q => w \in watchers
      BY <1>1, <2>2, <2>4
    <3>3. /\ thread'[q] \in rollouts' => origin'[thread'[q]] = <<q, era'[q]>>
          /\ gateway'[q] \in rollouts' => origin'[gateway'[q]] = <<q, era'[q]>>
      BY <1>1, <2>1, <3>1
    <3>4. \A w \in watchers' : w.of = q =>
            \A t \in rollouts' \ w.before : origin'[t] = <<q, era'[q]>>
      BY <1>1, <2>1, <3>1, <3>2
    <3>5. \A p \in reports' : p.of = q /\ p.thread \in rollouts' =>
            origin'[p.thread] = <<q, era'[q]>>
      BY <1>1, <2>1, <3>1
    <3> QED  BY <3>3, <3>4, <3>5
  <2> QED  BY <2>3, <2>4
<1> QED  BY <1>3, <1>4

LEMMA OwnFirstTurn ==
    ASSUME TerminalInv, NEW s \in Terminals, FirstTurn(s)
    PROVE  MintedFirst' /\ OwnOnly'
<1> USE TerminalsAssumption DEF TerminalInv, MintedFirst, OwnOnly
<1> DEFINE t == minted + 1
<1>1. /\ t \in Threads /\ minted' = t /\ rollouts' = rollouts \cup {t}
      /\ origin' = [origin EXCEPT ![t] = <<s, era[s]>>]
      /\ mixed' = mixed \cup {w.of : w \in {w \in watchers : w.of # s}}
      /\ UNCHANGED <<thread, gateway, watchers, reports, era>>
  BY DEF FirstTurn, TerminalTypeOK, Threads
<1>2. \A k \in rollouts : k # t /\ origin'[k] = origin[k]
  BY <1>1 DEF TerminalTypeOK, Threads
<1>3. /\ \A q \in Terminals : thread[q] # t /\ gateway[q] # t
      /\ \A p \in reports : p.thread # t
  BY DEF TerminalTypeOK, Threads
<1>4. MintedFirst'
  <2>1. \A k \in rollouts \cup {t} : k <= t
    BY <1>1 DEF TerminalTypeOK, Threads
  <2>2. \A q \in Terminals : thread[q] <= t /\ gateway[q] <= t
    <3> SUFFICES ASSUME NEW q \in Terminals PROVE thread[q] <= t /\ gateway[q] <= t
      OBVIOUS
    <3>1. thread[q] \in Nat /\ gateway[q] \in Nat /\ minted \in Nat
      BY DEF TerminalTypeOK, Threads, NoThread
    <3>2. thread[q] <= minted /\ gateway[q] <= minted
      OBVIOUS
    <3> HIDE DEF TerminalInv, MintedFirst, OwnOnly
    <3> QED  BY <3>1, <3>2
  <2>3. \A p \in reports : p.thread \in Threads /\ p.thread <= minted
    BY DEF TerminalTypeOK
  <2>4. \A p \in reports : p.thread <= t
    BY <2>3 DEF TerminalTypeOK, Threads
  <2> QED  BY <1>1, <2>1, <2>2, <2>4
<1>5. ASSUME NEW q \in Terminals, q \notin mixed'
      PROVE  /\ thread[q] \in rollouts' => origin'[thread[q]] = <<q, era[q]>>
             /\ gateway[q] \in rollouts' => origin'[gateway[q]] = <<q, era[q]>>
             /\ \A w \in watchers : w.of = q =>
                  \A k \in rollouts' \ w.before : origin'[k] = <<q, era[q]>>
             /\ \A p \in reports : p.of = q /\ p.thread \in rollouts' =>
                  origin'[p.thread] = <<q, era[q]>>
  <2>1. q \notin mixed
    BY <1>1, <1>5
  <2>2. \A w \in watchers : w.of = q => q = s
    BY <1>1, <1>5
  <2>3. origin'[t] = <<s, era[s]>>
    BY <1>1 DEF TerminalTypeOK
  <2> QED  BY <1>1, <1>2, <1>3, <2>1, <2>2, <2>3
<1>6. OwnOnly'
  <2> SUFFICES ASSUME NEW q \in Terminals, q \notin mixed'
               PROVE  /\ thread'[q] \in rollouts' => origin'[thread'[q]] = <<q, era'[q]>>
                      /\ gateway'[q] \in rollouts' => origin'[gateway'[q]] = <<q, era'[q]>>
                      /\ \A w \in watchers' : w.of = q =>
                           \A k \in rollouts' \ w.before : origin'[k] = <<q, era'[q]>>
                      /\ \A p \in reports' : p.of = q /\ p.thread \in rollouts' =>
                           origin'[p.thread] = <<q, era'[q]>>
    OBVIOUS
  <2>1. thread' = thread /\ gateway' = gateway /\ watchers' = watchers /\ reports' = reports /\ era' = era
    BY <1>1
  <2> HIDE DEF TerminalInv, MintedFirst, OwnOnly
  <2> QED  BY <1>5, <2>1
<1> HIDE DEF MintedFirst, OwnOnly
<1> QED  BY <1>4, <1>6

LEMMA OwnStep ==
    ASSUME TerminalInv, [TerminalNext]_terminalVars
    PROVE  MintedFirst' /\ OwnOnly'
<1> USE DEF TerminalInv, MintedFirst, OwnOnly
<1>1. ASSUME NEW s \in Terminals, OpenResumed(s)  PROVE MintedFirst' /\ OwnOnly'
  <2>1. Wanted(s) \in rollouts /\ (Wanted(s) = gateway[s] \/ Wanted(s) = thread[s])
    BY <1>1 DEF OpenResumed, Wanted
  <2> QED  BY <1>1, <2>1 DEF OpenResumed, TerminalTypeOK
<1>2. ASSUME NEW s \in Terminals, Reattach(s)  PROVE MintedFirst' /\ OwnOnly'
  BY <1>2 DEF Reattach, TerminalTypeOK
<1>3. ASSUME NEW s \in Terminals, PaneEnds(s)  PROVE MintedFirst' /\ OwnOnly'
  BY <1>3, ZenonT(60) DEF PaneEnds
<1>4. ASSUME NEW w \in watchers, Watch(w)  PROVE MintedFirst' /\ OwnOnly'
  <2>1. w.of \in Terminals
    BY DEF TerminalTypeOK
  <2>2. ASSUME NEW t \in rollouts \ w.before, thread' = [thread EXCEPT ![w.of] = t],
               reports' = reports \cup {[of |-> w.of, thread |-> t]}
        PROVE  MintedFirst' /\ OwnOnly'
    BY <1>4, <2>1, <2>2 DEF Watch, TerminalTypeOK
  <2>3. CASE UNCHANGED <<thread, reports>>
    BY <1>4, <2>3 DEF Watch
  <2> QED  BY <1>4, <2>2, <2>3 DEF Watch
<1>5. CASE Redeployed
  BY <1>5 DEF Redeployed
<1>6. CASE UNCHANGED terminalVars
  BY <1>6 DEF terminalVars
<1>7. ASSUME NEW s \in Terminals, RotateRefused(s)  PROVE MintedFirst' /\ OwnOnly'
  <2>1. NoThread \notin rollouts /\ NoThread <= minted
    BY DEF TerminalTypeOK, Threads, NoThread
  <2> QED  BY <1>7, <2>1 DEF RotateRefused, TerminalTypeOK
<1>8. ASSUME NEW p \in reports, Report(p)  PROVE MintedFirst' /\ OwnOnly'
  <2>1. p.of \in Terminals
    BY DEF TerminalTypeOK
  <2> QED  BY <1>8, <2>1 DEF Report, TerminalTypeOK
<1> QED
  BY <1>1, <1>2, <1>3, <1>4, <1>5, <1>6, <1>7, <1>8, OwnBegins, OwnFirstTurn DEF TerminalNext

\* A thread that can be resumed is that of its session's conversation of now,
\* through any rotations, respawns that tmux refuses, panes that die, reports that
\* are late or lost and changes of volume, where no watcher could see two
\* conversations and no rotation came while one polled or reported.
THEOREM RecordedCorrect == TerminalSpec => []RecordedIsOwn
<1>1. TerminalInit => TerminalInv
  BY TerminalTypeInit DEF TerminalInit, TerminalInv, MintedFirst, OwnOnly, NoThread
<1>2. TerminalInv /\ [TerminalNext]_terminalVars => TerminalInv'
  BY TerminalTypeStep, OwnStep DEF TerminalInv
<1>3. TerminalInv => RecordedIsOwn
  BY DEF TerminalInv, OwnOnly, RecordedIsOwn
<1> QED  BY <1>1, <1>2, <1>3, PTL DEF TerminalSpec

-----------------------------------------------------------------------------
(* DiscordChannel: any number of requests and channels.                     *)

\* A request that has its client is over, if it was a /join, or goes on to speak.
IsOver(r) == req' = [req EXCEPT ![r] = Anything("done")]
GoesOn(r, vc) ==
  req' = [req EXCEPT ![r] = [req[r] EXCEPT !.pc = "tts", !.vc = vc]] /\ req[r].kind # "join"
Linked(r) == link' = r /\ entry' = r /\ lock' = lock

LEMMA WithClientIs ==
    ASSUME DiscordTypeOK, NEW r \in Requests, NEW vc \in Requests, WithClient(r, vc)
    PROVE  IsOver(r) \/ GoesOn(r, vc)
<1>1. CASE req[r].kind = "join"
  BY <1>1 DEF WithClient, DiscordTypeOK, IsOver
<1>2. CASE req[r].kind # "join"
  BY <1>2 DEF WithClient, DiscordTypeOK, GoesOn
<1> QED  BY <1>1, <1>2

LEMMA UseVoiceIs ==
    ASSUME DiscordTypeOK, NEW r \in Requests, UseVoice(r)
    PROVE  /\ IsOver(r) \/ GoesOn(r, entry)
           /\ entry \in Requests /\ req[r].pc \in {"speak", "join"}
           /\ UNCHANGED <<lock, entry, link, opening, audio, over>>
<1>1. entry \in Requests /\ WithClient(r, entry)
  BY DEF UseVoice, Connected, DiscordTypeOK
<1> QED  BY <1>1, WithClientIs DEF UseVoice, voiceVars, WantsVoice, At

LEMMA VoiceOpenedIs ==
    ASSUME DiscordTypeOK, NEW r \in Requests, VoiceOpened(r)
    PROVE  /\ opening' = Nothing /\ UNCHANGED <<audio, over>> /\ req[r].pc = "connect"
           /\ \/ (IsOver(r) \/ GoesOn(r, r)) /\ Linked(r)
              \/ Finishes(r) /\ UNCHANGED <<link, entry>>
  BY WithClientIs DEF VoiceOpened, At, Linked

LEMMA DiscordTypeStep ==
    ASSUME DiscordTypeOK, [DiscordNext]_discordVars
    PROVE  DiscordTypeOK'
<1> USE DEF DiscordTypeOK, Ended, RequestKinds, voiceVars, Anything, At, Moves, Begins, Finishes,
            Released, Stopped, Unlinks
<1>1. ASSUME NEW r \in Requests, NEW c \in Channels,
             OnMessage(r, c) \/ OnSkill(r, c) \/ OnSlash(r, c) \/ Join(r, c)
      PROVE  DiscordTypeOK'
  BY <1>1 DEF OnMessage, OnSkill, OnSlash, Join
<1>2. ASSUME NEW r \in Requests, CommandAnswered(r) \/ Answered(r) \/ Raises(r)
      PROVE  DiscordTypeOK'
  BY <1>2 DEF CommandAnswered, Answered, Raises
<1>3. ASSUME NEW r \in Requests, Leave(r) \/ Disconnect(r)  PROVE DiscordTypeOK'
  BY <1>3 DEF Leave, Disconnect
<1>4. ASSUME NEW r \in Requests, SpeakToNobody(r) \/ UseVoice(r)  PROVE DiscordTypeOK'
  <2>1. CASE SpeakToNobody(r)
    BY <2>1 DEF SpeakToNobody
  <2>2. CASE UseVoice(r)
    <3>1. CASE IsOver(r)
      BY <2>2, <3>1, UseVoiceIs DEF IsOver
    <3>2. CASE GoesOn(r, entry)
      <4>1. entry \in Requests /\ UNCHANGED <<lock, entry, link, opening, audio, over>>
        BY <2>2, UseVoiceIs
      <4> QED  BY <3>2, <4>1 DEF GoesOn
    <3> QED  BY <2>2, <3>1, <3>2, UseVoiceIs
  <2> QED  BY <1>4, <2>1, <2>2
<1>5. ASSUME NEW r \in Requests, OpenVoice(r) \/ VoiceOpened(r)  PROVE DiscordTypeOK'
  <2>1. CASE OpenVoice(r)
    BY <2>1 DEF OpenVoice
  <2>2. CASE VoiceOpened(r)
    <3>1. /\ opening' = Nothing /\ UNCHANGED <<audio, over>> /\ req[r].pc = "connect"
          /\ \/ (IsOver(r) \/ GoesOn(r, r)) /\ Linked(r)
             \/ Finishes(r) /\ UNCHANGED <<link, entry>>
      BY <2>2, VoiceOpenedIs
    <3>2. CASE IsOver(r) /\ Linked(r)
      BY <3>1, <3>2 DEF IsOver, Linked
    <3>3. CASE GoesOn(r, r) /\ Linked(r)
      <4>1. [req[r] EXCEPT !.pc = "tts", !.vc = r]
              \in [pc : {"new", "turn", "speak", "join", "connect", "tts", "playing", "stopping"}
                         \cup Ended,
                  kind : RequestKinds \cup {"any"}, chan : Channels \cup {Nothing},
                  vc : Requests \cup {Nothing}]
        OBVIOUS
      <4> QED  BY <3>1, <3>3, <4>1 DEF GoesOn, Linked
    <3>4. CASE Finishes(r) /\ UNCHANGED <<link, entry>>
      BY <3>1, <3>4
    <3> QED  BY <3>1, <3>2, <3>3, <3>4
  <2> QED  BY <1>5, <2>1, <2>2
<1>6. ASSUME NEW r \in Requests, Play(r)  PROVE DiscordTypeOK'
  BY <1>6 DEF Play
<1>7. ASSUME NEW r \in Requests, Played(r) \/ PlaybackTimesOut(r)  PROVE DiscordTypeOK'
  BY <1>7 DEF Played, PlaybackTimesOut
<1>8. CASE AudioEnds \/ VoiceDrops
  BY <1>8 DEF AudioEnds, VoiceDrops
<1>9. CASE UNCHANGED discordVars
  BY <1>9 DEF discordVars
<1> QED
  BY <1>1, <1>2, <1>3, <1>4, <1>5, <1>6, <1>7, <1>8, <1>9 DEF DiscordNext, Speaks

LEMMA DiscordTypeInit == DiscordInit => DiscordTypeOK
  BY DEF DiscordInit, DiscordTypeOK, Anything, RequestKinds, Ended

\* The locks, the connections and the requests stay in their types.
THEOREM DiscordTypeCorrect == DiscordSpec => []DiscordTypeOK
  BY DiscordTypeInit, DiscordTypeStep, PTL DEF DiscordSpec

\* A message holds its channel's lock to its end.
MessageHoldsLock ==
  \A r \in Requests : req[r].kind = "message" => req[r].chan \in Channels /\ lock[req[r].chan] = r

\* One client connects at a time, and only where none is linked.
OneConnects ==
  /\ \A r \in Requests : At(r, "connect") <=> opening = r
  /\ opening # Nothing => link = Nothing

\* Who has a client to play on has a real one; what plays, plays on the link
\* for a request that waits for it and has not been called back; only one that
\* waits is called back, and one that waits plays or has been.
PlayersWait ==
  /\ \A r \in Requests : At(r, "tts") \/ At(r, "playing") => req[r].vc # Nothing
  /\ audio # Nothing => At(audio, "playing") /\ req[audio].vc = link /\ audio \notin over
  /\ \A r \in over : At(r, "playing")
  /\ \A r \in Requests : At(r, "playing") => audio = r \/ r \in over

DiscordInv == DiscordTypeOK /\ MessageHoldsLock /\ OneConnects /\ PlayersWait

LEMMA LockStep ==
    ASSUME DiscordInv, [DiscordNext]_discordVars
    PROVE  MessageHoldsLock'
<1> USE DEF DiscordInv, DiscordTypeOK, MessageHoldsLock, voiceVars, Anything, At, Moves, Begins,
            Finishes, Released, RequestKinds
<1>1. ASSUME NEW r \in Requests, NEW c \in Channels,
             OnMessage(r, c) \/ OnSkill(r, c) \/ OnSlash(r, c) \/ Join(r, c)
      PROVE  MessageHoldsLock'
  BY NothingAssumption, <1>1 DEF OnMessage, OnSkill, OnSlash, Join
<1>2. ASSUME NEW r \in Requests, CommandAnswered(r) \/ Answered(r) \/ Raises(r)
      PROVE  MessageHoldsLock'
  BY <1>2 DEF CommandAnswered, Answered, Raises
<1>3. ASSUME NEW r \in Requests, Leave(r) \/ Disconnect(r)  PROVE MessageHoldsLock'
  BY <1>3 DEF Leave, Disconnect
<1>4. ASSUME NEW r \in Requests, Speaks(r)  PROVE MessageHoldsLock'
  <2>1. ASSUME SpeakToNobody(r) \/ UseVoice(r)  PROVE MessageHoldsLock'
    <3>1. CASE SpeakToNobody(r)
      BY <3>1 DEF SpeakToNobody
    <3>2. CASE UseVoice(r)
      <4>1. CASE IsOver(r)
        BY <3>2, <4>1, UseVoiceIs DEF IsOver
      <4>2. CASE GoesOn(r, entry)
        <5>1. entry \in Requests /\ req[r].pc \in {"speak", "join"}
              /\ UNCHANGED <<lock, entry, link, opening, audio, over>>
          BY <3>2, UseVoiceIs
        <5> QED  BY <4>2, <5>1 DEF GoesOn
      <4> QED  BY <3>2, <4>1, <4>2, UseVoiceIs
    <3> QED  BY <2>1, <3>1, <3>2
  <2>2. ASSUME OpenVoice(r) \/ VoiceOpened(r)  PROVE MessageHoldsLock'
    <3>1. CASE OpenVoice(r)
      BY <3>1 DEF OpenVoice
    <3>2. CASE VoiceOpened(r)
      <4>1. /\ opening' = Nothing /\ UNCHANGED <<audio, over>> /\ req[r].pc = "connect"
            /\ \/ (IsOver(r) \/ GoesOn(r, r)) /\ Linked(r)
               \/ Finishes(r) /\ UNCHANGED <<link, entry>>
        BY <3>2, VoiceOpenedIs
      <4>2. CASE IsOver(r) /\ Linked(r)
        BY <4>1, <4>2 DEF IsOver, Linked
      <4>3. CASE GoesOn(r, r) /\ Linked(r)
        BY <4>1, <4>3 DEF GoesOn, Linked
      <4>4. CASE Finishes(r) /\ UNCHANGED <<link, entry>>
        BY <4>1, <4>4
      <4> QED  BY <4>1, <4>2, <4>3, <4>4
    <3> QED  BY <2>2, <3>1, <3>2
  <2>3. ASSUME Play(r) \/ Played(r) \/ PlaybackTimesOut(r)  PROVE MessageHoldsLock'
    BY <2>3 DEF Play, Played, PlaybackTimesOut
  <2> QED  BY <1>2, <1>4, <2>1, <2>2, <2>3 DEF Speaks
<1>5. CASE AudioEnds \/ VoiceDrops
  BY <1>5 DEF AudioEnds, VoiceDrops
<1>6. CASE UNCHANGED discordVars
  BY <1>6 DEF discordVars
<1> QED
  BY <1>1, <1>2, <1>3, <1>4, <1>5, <1>6 DEF DiscordNext

LEMMA VoiceStep ==
    ASSUME DiscordInv, [DiscordNext]_discordVars
    PROVE  OneConnects' /\ PlayersWait'
<1> USE NothingAssumption
    DEF DiscordInv, DiscordTypeOK, OneConnects, PlayersWait, voiceVars, Anything, At, Moves, Begins,
        Finishes, Stopped, Unlinks
<1>1. ASSUME NEW r \in Requests, NEW c \in Channels,
             OnMessage(r, c) \/ OnSkill(r, c) \/ OnSlash(r, c) \/ Join(r, c)
      PROVE  OneConnects' /\ PlayersWait'
  BY <1>1, SMTT(60) DEF OnMessage, OnSkill, OnSlash, Join
<1>2. ASSUME NEW r \in Requests, CommandAnswered(r) \/ Answered(r) \/ Raises(r)
      PROVE  OneConnects' /\ PlayersWait'
  BY <1>2 DEF CommandAnswered, Answered, Raises
<1>3. ASSUME NEW r \in Requests, Leave(r)  PROVE OneConnects' /\ PlayersWait'
  BY <1>3 DEF Leave
<1>4. ASSUME NEW r \in Requests, Disconnect(r)  PROVE OneConnects' /\ PlayersWait'
  BY <1>4 DEF Disconnect
<1>5. ASSUME NEW r \in Requests, Speaks(r)  PROVE OneConnects' /\ PlayersWait'
  <2>1. ASSUME SpeakToNobody(r) \/ UseVoice(r)  PROVE OneConnects' /\ PlayersWait'
    <3>1. CASE SpeakToNobody(r)
      BY <3>1 DEF SpeakToNobody
    <3>2. CASE UseVoice(r)
      <4>1. CASE IsOver(r)
        BY <3>2, <4>1, UseVoiceIs DEF IsOver
      <4>2. CASE GoesOn(r, entry)
        <5>1. entry \in Requests /\ req[r].pc \in {"speak", "join"}
              /\ UNCHANGED <<lock, entry, link, opening, audio, over>>
          BY <3>2, UseVoiceIs
        <5> QED  BY <4>2, <5>1 DEF GoesOn
      <4> QED  BY <3>2, <4>1, <4>2, UseVoiceIs
    <3> QED  BY <2>1, <3>1, <3>2
  <2>2. ASSUME OpenVoice(r)  PROVE OneConnects' /\ PlayersWait'
    BY <2>2 DEF OpenVoice, WantsVoice
  <2>3. ASSUME VoiceOpened(r)  PROVE OneConnects' /\ PlayersWait'
    <3>1. /\ opening' = Nothing /\ UNCHANGED <<audio, over>> /\ req[r].pc = "connect"
          /\ \/ (IsOver(r) \/ GoesOn(r, r)) /\ Linked(r)
             \/ Finishes(r) /\ UNCHANGED <<link, entry>>
      BY <2>3, VoiceOpenedIs
    <3>2. CASE IsOver(r) /\ Linked(r)
      BY <3>1, <3>2 DEF IsOver, Linked
    <3>3. CASE GoesOn(r, r) /\ Linked(r)
      BY <3>1, <3>3 DEF GoesOn, Linked
    <3>4. CASE Finishes(r) /\ UNCHANGED <<link, entry>>
      BY <3>1, <3>4
    <3> QED  BY <3>1, <3>2, <3>3, <3>4
  <2>4. ASSUME Play(r)  PROVE OneConnects' /\ PlayersWait'
    BY <2>4 DEF Play
  <2>5. ASSUME Played(r)  PROVE OneConnects' /\ PlayersWait'
    BY <2>5 DEF Played
  <2>6. ASSUME PlaybackTimesOut(r)  PROVE OneConnects' /\ PlayersWait'
    BY <2>6 DEF PlaybackTimesOut
  <2> QED  BY <1>2, <1>5, <2>1, <2>2, <2>3, <2>4, <2>5, <2>6 DEF Speaks
<1>6. CASE AudioEnds \/ VoiceDrops
  BY <1>6 DEF AudioEnds, VoiceDrops
<1>7. CASE UNCHANGED discordVars
  BY <1>7 DEF discordVars
<1> QED
  BY <1>1, <1>2, <1>3, <1>4, <1>5, <1>6, <1>7 DEF DiscordNext

\* The messages of a channel take turns, and what is spoken is waited for, for
\* any requests: through answers spoken over each other, /join, /leave, a
\* dropped connection and a timeout.
THEOREM SpokenCorrect == DiscordSpec => []SpokenInTurn
<1>1. DiscordInit => DiscordInv
  BY DiscordTypeInit, NothingAssumption
     DEF DiscordInit, DiscordInv, MessageHoldsLock, OneConnects, PlayersWait, At, Anything
<1>2. DiscordInv /\ [DiscordNext]_discordVars => DiscordInv'
  BY DiscordTypeStep, LockStep, VoiceStep DEF DiscordInv
<1>3. DiscordInv => SpokenInTurn
  BY DEF DiscordInv, MessageHoldsLock, PlayersWait, SpokenInTurn, OneMessageEach,
         NobodyWaitsInVain, At
<1> QED  BY <1>1, <1>2, <1>3, PTL DEF DiscordSpec

-----------------------------------------------------------------------------
(* The three together, as they are run.                                     *)

\* A behaviour of the run is one of each part, which moves or stands still.
LEMMA PartsRun == Spec => IdentitySpec /\ TerminalSpec /\ DiscordSpec
<1>1. Init => IdentityInit /\ TerminalInit /\ DiscordInit
  BY DEF Init
<1>2. [Next]_vars => /\ [IdentityNext]_identityVars
                     /\ [TerminalNext]_terminalVars
                     /\ [DiscordNext]_discordVars
  BY DEF Next, vars
<1> QED  BY <1>1, <1>2, PTL DEF Spec, IdentitySpec, TerminalSpec, DiscordSpec

\* Every part of the run stays in its types.
THEOREM ProgressTypeCorrect == Spec => []TypeOK
<1>1. IdentityTypeOK /\ TerminalTypeOK /\ DiscordTypeOK => TypeOK
  BY DEF TypeOK
<1> QED
  BY <1>1, PartsRun, IdentityTypeCorrect, TerminalTypeCorrect, DiscordTypeCorrect, PTL

=============================================================================
