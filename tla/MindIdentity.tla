---------------------------- MODULE MindIdentity ----------------------------
(***************************************************************************)
(* The credential of a mind: processes of it that start, perhaps at once     *)
(* and any of them killed anywhere, find, mint or reclaim the token file of  *)
(* runtime_config; each then keeps registering its token with the gateway    *)
(* (_registration_loop), which presents the last one it was sent. A process  *)
(* mints at most once, so the token it mints goes by its name.               *)
(***************************************************************************)
CONSTANTS
  Procs,   \* processes of the mind
  NoToken  \* no token

\* A token is no token's absence, and is told from an empty or missing file.
ASSUME TokensAssumption == NoToken \notin Procs /\ "absent" \notin Procs /\ "empty" \notin Procs

VARIABLES
  proc,       \* where a process is in session_token
  token,      \* the token it enforces (its _token_cache)
  tokenFile,  \* the token file: "absent", "empty" or the token in it
  aged,       \* the empty file is older than the window
  contested,  \* ghost: two processes were to fill the file at once
  reg,        \* a process's registration loop
  comms,      \* how the gateway takes a registration
  known,      \* the token the gateway presents
  late        \* registrations given up on that may still arrive

identityVars == <<proc, token, tokenFile, aged, contested, reg, comms, known, late>>
fileVars == <<tokenFile, aged, contested>>
gatewayVars == <<reg, comms, known, late>>

Filling == {"created", "reclaim", "truncated"}
Alive == {"read", "create", "adopt", "serving"} \cup Filling

IdentityTypeOK ==
  /\ proc \in [Procs -> Alive \cup {"new", "dead"}]
  /\ token \in [Procs -> Procs \cup {NoToken}]
  /\ tokenFile \in Procs \cup {"absent", "empty"}
  /\ aged \in BOOLEAN
  /\ contested \in BOOLEAN
  /\ reg \in [Procs -> {"ready", "asleep", "stopped"}]
  /\ comms \in {"up", "refuses", "down", "unset"}
  /\ known \in Procs \cup {NoToken}
  /\ late \in SUBSET Procs

IdentityInit ==
  /\ proc = [p \in Procs |-> "new"]
  /\ token = [p \in Procs |-> NoToken]
  /\ tokenFile = "absent"
  /\ aged = FALSE
  /\ contested = FALSE
  /\ reg = [p \in Procs |-> "ready"]
  /\ comms \in {"down", "unset"}
  /\ known = NoToken
  /\ late = {}

-----------------------------------------------------------------------------
(* runtime_config: establishing the token.                                  *)

Goes(p, from, to) ==
  /\ proc[p] = from
  /\ proc' = [proc EXCEPT ![p] = to]

\* From now on the process enforces t.
Settles(p, t) ==
  /\ proc' = [proc EXCEPT ![p] = "serving"]
  /\ token' = [token EXCEPT ![p] = t]

Start(p) ==
  /\ Goes(p, "new", "read")
  /\ UNCHANGED <<token, fileVars, gatewayVars>>

\* Mutant: whatever the file holds is the token.
ReadWhatIsThere(p) ==
  /\ proc[p] = "read"
  /\ IF tokenFile # "absent"
       THEN Settles(p, tokenFile)
       ELSE Goes(p, "read", "create") /\ UNCHANGED token
  /\ UNCHANGED <<fileVars, gatewayVars>>

\* _mint_or_read_token: a token on disk is the mind's.
ReadToken(p) ==
  /\ proc[p] = "read"
  /\ IF tokenFile \in Procs
       THEN Settles(p, tokenFile)
       ELSE Goes(p, "read", "create") /\ UNCHANGED token
  /\ UNCHANGED <<fileVars, gatewayVars>>

\* Mutant: without O_EXCL.
CreateAnyway(p) ==
  /\ Goes(p, "create", "created")
  /\ tokenFile' = "empty"
  /\ aged' = FALSE
  /\ UNCHANGED <<token, contested, gatewayVars>>

\* O_EXCL: one process creates the file, the others adopt what it will hold.
Create(p) ==
  /\ IF tokenFile = "absent"
       THEN /\ Goes(p, "create", "created")
            /\ tokenFile' = "empty"
            /\ aged' = FALSE
       ELSE /\ Goes(p, "create", "adopt")
            /\ UNCHANGED <<tokenFile, aged>>
  /\ UNCHANGED <<token, contested, gatewayVars>>

WriteToken(p) ==
  /\ proc[p] \in {"created", "truncated"}
  /\ tokenFile' = p
  /\ Settles(p, p)
  /\ UNCHANGED <<aged, contested, gatewayVars>>

\* The window passes over an empty file. Its writer should be gone by then.
Ages ==
  /\ tokenFile = "empty"
  /\ ~aged
  /\ aged' = TRUE
  /\ contested' = (contested \/ \E p \in Procs : proc[p] \in Filling)
  /\ UNCHANGED <<proc, token, tokenFile, gatewayVars>>

\* Mutant: an empty file is waited on for ever.
AdoptOnly(p) ==
  /\ proc[p] = "adopt"
  /\ tokenFile \in Procs
  /\ Settles(p, tokenFile)
  /\ UNCHANGED <<fileVars, gatewayVars>>

\* _adopt_or_reclaim: wait for the writer, or take the place of a dead one.
Adopt(p) ==
  /\ proc[p] = "adopt"
  /\ \/ /\ tokenFile \in Procs
        /\ Settles(p, tokenFile)
        /\ UNCHANGED contested
     \/ /\ tokenFile = "empty" /\ aged
        /\ Goes(p, "adopt", "reclaim")
        /\ contested' = (contested \/ \E q \in Procs : proc[q] \in Filling)
        /\ UNCHANGED token
  /\ UNCHANGED <<tokenFile, aged, gatewayVars>>

\* open(path, "w") empties the file, also of a token written meanwhile.
Truncate(p) ==
  /\ Goes(p, "reclaim", "truncated")
  /\ tokenFile' = "empty"
  /\ aged' = FALSE
  /\ UNCHANGED <<token, contested, gatewayVars>>

Kill(p) ==
  /\ proc[p] \in Alive
  /\ proc' = [proc EXCEPT ![p] = "dead"]
  /\ UNCHANGED <<token, fileVars, gatewayVars>>

-----------------------------------------------------------------------------
(* mind_server: registering, for as long as the process runs.               *)

\* Mutant: a registration that is refused is the last.
RegisterOrGiveUp(p) ==
  /\ proc[p] = "serving" /\ reg[p] = "ready"
  /\ reg' = [reg EXCEPT ![p] = IF comms \in {"unset", "refuses"} THEN "stopped" ELSE "asleep"]
  /\ known' = IF comms = "up" THEN token[p] ELSE known
  /\ late' = IF comms = "down" THEN late \cup {token[p]} ELSE late
  /\ UNCHANGED <<proc, token, fileVars, comms>>

\* _register_with_broker: taken, refused, or given up on after its timeout.
\* Without a gateway's address there is nothing to register with.
Register(p) ==
  /\ proc[p] = "serving" /\ reg[p] = "ready"
  /\ reg' = [reg EXCEPT ![p] = IF comms = "unset" THEN "stopped" ELSE "asleep"]
  /\ known' = IF comms = "up" THEN token[p] ELSE known
  /\ late' = IF comms = "down" THEN late \cup {token[p]} ELSE late
  /\ UNCHANGED <<proc, token, fileVars, comms>>

\* The heartbeat of 300 s, or a retry's delay of at most 60.
Wake(p) ==
  /\ reg[p] = "asleep"
  /\ reg' = [reg EXCEPT ![p] = "ready"]
  /\ UNCHANGED <<proc, token, fileVars, comms, known, late>>

\* The gateway is restarted, refuses the bearer, or takes registrations again.
CommsChange ==
  /\ comms # "unset"
  /\ comms' \in {"up", "refuses", "down"} \ {comms}
  /\ UNCHANGED <<proc, token, fileVars, reg, known, late>>

\* A registration its sender has given up on.
ArrivesLate ==
  \E t \in late :
    /\ known' = t
    /\ late' = late \ {t}
    /\ UNCHANGED <<proc, token, fileVars, reg, comms>>

\* The gateway's registry is rebuilt.
GatewayForgets ==
  /\ known # NoToken
  /\ known' = NoToken
  /\ UNCHANGED <<proc, token, fileVars, reg, comms, late>>

ProcStep(p) ==
  ReadToken(p) \/ Create(p) \/ WriteToken(p) \/ Adopt(p) \/ Truncate(p) \/ Register(p) \/ Wake(p)

IdentityNext ==
  \/ \E p \in Procs : Start(p) \/ Kill(p) \/ ProcStep(p)
  \/ Ages \/ CommsChange \/ ArrivesLate \/ GatewayForgets

\* The processes run and time passes. Nothing is assumed of the gateway.
IdentityFair == (\A p \in Procs : WF_identityVars(ProcStep(p))) /\ WF_identityVars(Ages)

IdentitySpec == IdentityInit /\ [][IdentityNext]_identityVars

-----------------------------------------------------------------------------
(* Properties *)

\* Every process of the mind enforces the token that is on disk, through any
\* number of starts and kills at any point, also one between the creation of
\* the file and its write; but for two that would fill the file at once.
TokensAgree ==
  contested \/ \A p \in Procs : proc[p] = "serving" => token[p] = tokenFile

\* Nobody waits for a writer that has died: a process that has started ends up
\* with a token, or is killed.
TokenSettles ==
  \A p \in Procs : proc[p] = "read" ~> proc[p] \in {"serving", "dead"}

\* While one process serves and the gateway takes registrations, the gateway
\* comes to present that process's token, again and again: through outages,
\* refusals, a rebuilt registry and registrations of dead processes that
\* arrive late.
GatewayLearns ==
  \A p \in Procs :
    (<>[](/\ comms = "up" /\ proc[p] = "serving"
          /\ \A q \in Procs \ {p} : proc[q] \in {"new", "dead"}))
      => []<>(known = token[p])
=============================================================================
