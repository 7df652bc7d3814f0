------------------------------ MODULE AgentHost ------------------------------
(***************************************************************************)
(* The agent daemon (cpp-agent/main.cpp): it restores or makes the root of *)
(* a session, serves one client after another, and runs every line as a    *)
(* turn of the conversation in the embedded VM (agent_root_vm_ops.cpp, the *)
(* modules agentc_agent_root.edict and agentc_stateful_loop.edict), which  *)
(* asks the runtime for a reply (runtime/core/runtime.cpp).                *)
(*                                                                         *)
(* The session's store is file-backed: the files are the memory, so what   *)
(* a crash leaves is the root of the last save or the root at work.  Once  *)
(* a reset has removed the files, memory is in files without a name, and a *)
(* later save may not be readable.  A prompt is its number.                *)
(***************************************************************************)
EXTENDS Naturals, Sequences, SequencesExt, FiniteSets

CONSTANTS Providers,  \* of "openai", "google", "codex", "unknown"
          MaxPrompts, \* bound on the prompts of a behaviour
          MaxStarts   \* bound on the starts of the daemon

VARIABLES host,    \* "down", or where the daemon is in serving a client
          root,    \* the agent root of the VM
          turn,    \* the prompt at work, the response to it and what is said
          disk,    \* the session's directory
          named,   \* are the files of the memory in it?
          options, \* the provider on the command line
          prompts, starts, \* how many there were
          since,   \* history: the prompts before the last reset
          sent     \* history: the last messages a provider was given

hostVars == <<host, root, turn, disk, named, options, prompts, starts, since, sent>>

User(n)      == [role |-> "user", n |-> n]
Assistant(n) == [role |-> "assistant", n |-> n]
NullText     == [role |-> "none", n |-> 0]  \* the text "null", not a message
Blank        == 1  \* the first prompt is an empty line
NoTurn       == [prompt |-> 0, response |-> "none", reply |-> "none"]
NoSession    == [kind |-> "none"]
DefaultRoot(p) == [messages |-> <<>>, provider |-> p, contract |-> "none"]

---------------------------------------------------------------------------
(* The daemon starts: a root that cannot be loaded is a new one, a library  *)
(* that changed clears the session.  Rehydration takes the contract of the *)
(* provider the root names, whatever the command line says.                *)

Rehydrated(r) == [r EXCEPT !.contract = r.provider]
Restorable == IF disk.kind = "none" THEN {}
              ELSE {disk.root} \cup (IF disk.whole THEN {} ELSE {DefaultRoot(options')})

Start ==
  /\ host = "down" /\ starts < MaxStarts
  /\ starts' = starts + 1 /\ options' \in Providers
  /\ \/ /\ Restorable # {}
        /\ \E r \in Restorable : root' = Rehydrated(r)
        /\ UNCHANGED disk
     \/ /\ Restorable = {}
        /\ root' = Rehydrated(DefaultRoot(options')) /\ UNCHANGED disk
     \/ /\ Restorable # {}
        /\ root' = Rehydrated(DefaultRoot(options')) /\ disk' = NoSession
  /\ host' = "accepts" /\ turn' = NoTurn /\ named' = TRUE
  /\ UNCHANGED <<prompts, since, sent>>

\* The process ends; the pages of a mapped slab are in its file.  One that
\* ends in order releases the root, whose slots may be freed in the files.
Ends(inOrder) ==
  /\ host' = "down" /\ turn' = NoTurn
  /\ IF disk.kind = "saved" /\ named
     THEN \/ disk' \in {disk, [disk EXCEPT !.root = root]}
          \/ inOrder /\ disk' = [disk EXCEPT !.whole = FALSE]
     ELSE UNCHANGED disk
  /\ UNCHANGED <<root, named, options, prompts, starts, since, sent>>
Crash == host # "down" /\ Ends(FALSE)

---------------------------------------------------------------------------
(* One client at a time: a line, or the end of the connection.             *)

At(here, next) == host = here /\ host' = next
Attach == /\ At("accepts", "reads")
          /\ UNCHANGED <<root, turn, disk, named, options, prompts, starts, since, sent>>
Detach == /\ At("reads", "accepts")
          /\ UNCHANGED <<root, turn, disk, named, options, prompts, starts, since, sent>>
Shutdown == host = "reads" /\ Ends(TRUE)

\* The mistake of a reset that leaves the files.
NotCleared == disk
Cleared == NoSession
Reset == /\ At("reads", "resets")
         /\ disk' = Cleared /\ root' = DefaultRoot(options)
         /\ since' = prompts /\ named' = FALSE
         /\ UNCHANGED <<turn, options, prompts, starts, sent>>
ResetEnds == /\ At("resets", "reads")
             /\ root' = Rehydrated(root) /\ disk' = Cleared
             /\ UNCHANGED <<turn, named, options, prompts, starts, since, sent>>

---------------------------------------------------------------------------
(* A turn: the prompt joins the messages, and the request has them all.     *)

Stage == /\ At("reads", "asks") /\ prompts < MaxPrompts
         /\ prompts' = prompts + 1
         /\ turn' = [NoTurn EXCEPT !.prompt = prompts + 1]
         /\ root' = [root EXCEPT !.messages = Append(@, User(prompts + 1))]
         /\ UNCHANGED <<disk, named, options, starts, since, sent>>

\* build_context_from_request throws at what is not an object.
Readable(ms) == NullText \notin Range(ms)
Resolvable(contract) == contract # "unknown"
\* The payload of a provider; Codex leaves out what is empty.
CodexInput(ms) ==
  LET kept[i \in 0 .. Len(ms)] ==
        IF i = 0 THEN <<>>
        ELSE IF ms[i] = User(Blank) THEN kept[i - 1] ELSE Append(kept[i - 1], ms[i])
  IN kept[Len(ms)]
Payload(p, ms) == IF p = "codex" THEN CodexInput(ms) ELSE ms

Respond(response) == turn' = [turn EXCEPT !.response = response]
Ask ==
  /\ At("asks", "applies")
  /\ IF ~Resolvable(root.contract) \/ ~Readable(root.messages)
     THEN Respond("internal_error") /\ UNCHANGED sent
     ELSE /\ sent' = [n |-> turn.prompt, provider |-> root.contract,
                      messages |-> Payload(root.contract, root.messages)]
          /\ \E r \in {"ok", "provider_response_invalid"} : Respond(r)
  /\ UNCHANGED <<root, disk, named, options, prompts, starts, since>>

\* The VM reports an error: it is reset, and the turn is neither applied nor saved.
Throw == /\ host \in {"asks", "applies"} /\ host' = "reads"
         /\ turn' = NoTurn
         /\ UNCHANGED <<root, disk, named, options, prompts, starts, since, sent>>

\* The response of a failed request has a null for a message: the text "null"
\* joins the messages, and `message.text` is the text of the reply.
ReplyText(ok) == IF ok THEN "text" ELSE "message.text"
\* The mistake of applying a response before the prompt.
Swapped(ms, m) == Append(Front(ms), m) \o <<Last(ms)>>
Joined(ms, m) == Append(ms, m)
Apply ==
  /\ At("applies", "saves")
  /\ LET ok == turn.response = "ok"
     IN  /\ root' = [root EXCEPT !.messages =
                       Joined(@, IF ok THEN Assistant(turn.prompt) ELSE NullText)]
         /\ turn' = [turn EXCEPT !.reply = ReplyText(ok)]
  /\ UNCHANGED <<disk, named, options, prompts, starts, since, sent>>

\* saveRootFileBacked; a failure is only a warning.  Then the reply.
Saved == [kind |-> "saved", root |-> root, turn |-> turn, whole |-> named]
Save ==
  /\ At("saves", "reads")
  /\ \/ UNCHANGED disk
     \/ disk' = Saved
  /\ UNCHANGED <<root, turn, named, options, prompts, starts, since, sent>>

Init == /\ host = "down" /\ root = DefaultRoot("unknown") /\ turn = NoTurn
        /\ disk = NoSession /\ named = FALSE /\ options = "unknown"
        /\ prompts = 0 /\ starts = 0 /\ since = 0
        /\ sent = [n |-> 0, provider |-> "unknown", messages |-> <<>>]

Next == \/ Start \/ Crash \/ Attach \/ Detach \/ Shutdown
        \/ Reset \/ ResetEnds \/ Stage \/ Ask \/ Throw \/ Apply \/ Save

Spec == Init /\ [][Next]_hostVars

---------------------------------------------------------------------------
(***************************************************************************)
(* What a provider is given is the conversation since the last reset, over *)
(* restarts, crashes and turns that failed: prompts in the order they were *)
(* typed, a reply right after its prompt, the prompt of the turn last.     *)
(***************************************************************************)
RequestsCarryTheSession ==
  LET ms == sent.messages
  IN  /\ \A i \in DOMAIN ms : ms[i].role \in {"user", "assistant"}
      /\ \A i, j \in DOMAIN ms : i < j => ms[i].n <= ms[j].n
      /\ \A i, j \in DOMAIN ms : ms[i] = ms[j] => i = j
      /\ \A i \in DOMAIN ms : ms[i].role = "assistant" /\ ms[i].n # Blank
                              => i > 1 /\ ms[i - 1] = User(ms[i].n)
      /\ sent.n > 0 /\ ~(sent.provider = "codex" /\ sent.n = Blank)
           => ms # <<>> /\ Last(ms) = User(sent.n)
      /\ sent.n > since => \A i \in DOMAIN ms : ms[i].n > since

(***************************************************************************)
(* As the project's log has it, the conversation is persisted after each   *)
(* successful turn.                                                        *)
(***************************************************************************)
SavedAfterSuccess == disk.kind = "saved" => disk.turn.response = "ok"
=============================================================================
