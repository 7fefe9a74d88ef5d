------------------------------ MODULE Presence ------------------------------
(***************************************************************************)
(* Discord Rich Presence (main.rs, PresenceSync.ts): the frontend pushes   *)
(* the session's state when it changes, a worker thread takes the commands *)
(* in order, connects when it has no client and the last attempt is old    *)
(* enough, and drops a command it cannot show.  Discord comes and goes,    *)
(* and forgets an activity when its client goes.                           *)
(*                                                                         *)
(* Operators named X_Y and commented (fault) are not part of the model.    *)
(***************************************************************************)
EXTENDS Naturals, Sequences

CONSTANTS
  Activity,   \* what an Update shows
  Blank,      \* what a Clear shows
  Unsent,     \* PresenceSync's empty lastSent
  Due,        \* the 15 s between attempts, in ticks
  MaxQueue    \* bound: commands waiting

ASSUME PresenceAssumption ==
  /\ Blank \notin Activity /\ Unsent \notin Activity \cup {Blank}
  /\ Due \in Nat \ {0} /\ MaxQueue \in Nat \ {0}

VARIABLES
  discord,   \* Discord runs
  queue,     \* the channel
  client,    \* the worker has a client
  stale,    \* whose Discord is gone
  since,     \* ticks since the last attempt, up to Due
  profile,   \* what the player's profile shows
  latest     \* the last command sent: PresenceSync's lastSent

presenceVars == <<discord, queue, client, stale, since, profile, latest>>

Command == Activity \cup {Blank}

PresenceTypeOK ==
  /\ discord \in BOOLEAN /\ client \in BOOLEAN /\ stale \in BOOLEAN
  /\ queue \in Seq(Command) /\ Len(queue) <= MaxQueue
  /\ since \in 0..Due
  /\ profile \in Command /\ latest \in Command \cup {Unsent}

PresenceInit ==
  /\ discord = FALSE /\ queue = <<>> /\ client = FALSE /\ stale = FALSE
  /\ since = Due /\ profile = Blank /\ latest = Unsent

\* update_presence and clear_presence, called when the state changes
Push ==
  /\ Len(queue) < MaxQueue
  /\ latest' \in Command \ {latest}
  /\ queue' = Append(queue, latest')
  /\ UNCHANGED <<discord, client, stale, since, profile>>

Take == queue # <<>> /\ queue' = Tail(queue)

\* (fault) there is nothing to send for an empty presence
TakeConnected_SkipsClear ==
  /\ Take /\ client
  /\ profile' = IF discord /\ ~stale /\ Head(queue) # Blank THEN Head(queue) ELSE profile
  /\ UNCHANGED <<discord, client, stale, since, latest>>

\* The activity is set, or Discord does not answer any more and its client goes.
TakeConnected ==
  /\ Take /\ client
  /\ IF discord /\ ~stale
       THEN profile' = Head(queue) /\ UNCHANGED <<client, stale>>
       ELSE client' = FALSE /\ stale' = FALSE /\ UNCHANGED profile
  /\ UNCHANGED <<discord, since, latest>>

\* (fault) an attempt that is not due begins the wait again
TakeTooSoon_Restarts ==
  /\ Take /\ ~client /\ since < Due /\ since' = 0
  /\ UNCHANGED <<discord, client, stale, profile, latest>>

\* The command is dropped.
TakeTooSoon ==
  /\ Take /\ ~client /\ since < Due
  /\ UNCHANGED <<discord, client, stale, since, profile, latest>>

\* An attempt: if it connects, it shows the command that made it.
TakeAndConnect ==
  /\ Take /\ ~client /\ since = Due /\ since' = 0
  /\ client' = discord
  /\ profile' = IF discord THEN Head(queue) ELSE profile
  /\ UNCHANGED <<discord, stale, latest>>

TimeGoes == since < Due /\ since' = since + 1
            /\ UNCHANGED <<discord, queue, client, stale, profile, latest>>

\* Discord starts, or stops and its profile goes; the worker does not see it.
DiscordMoves ==
  /\ discord' = ~discord /\ profile' = Blank
  /\ stale' = client
  /\ UNCHANGED <<queue, client, since, latest>>

Worker == TakeConnected \/ TakeTooSoon \/ TakeAndConnect

PresenceStep == Push \/ Worker \/ TimeGoes \/ DiscordMoves

\* The worker runs, and time passes.
PresenceFairness == WF_presenceVars(Worker) /\ WF_presenceVars(TimeGoes)

-----------------------------------------------------------------------------
(* Properties *)

\* Once the commands are taken the profile shows the last one, or nothing: it
\* never says what is no longer so (main.rs:249-251).
NeverOutdated == queue = <<>> => profile \in {latest, Blank}

\* With Discord there to stay and the session changing, the worker ends up with a
\* client that works: the wait between attempts never starves it (main.rs:252-254).
ComesBack ==
  <>[]discord /\ []<>(queue # <<>>) => <>[](client /\ ~stale)
==============================================================================
