---------------------------- MODULE AgentContext ----------------------------
(***************************************************************************)
(* The message history of one Agent and its projection into the model's    *)
(* window (restscope/context/context.py).                                  *)
(*                                                                         *)
(* A message has a role, the size of its content, the Tool call it makes   *)
(* or answers, and the facts its content says.  A context has its stable   *)
(* messages, the initial user message, and the groups of messages that     *)
(* followed; a group is the unit that is kept or left out.                 *)
(***************************************************************************)
EXTENDS Integers, SequencesExt

CONSTANTS
  Overhead,      \* the size of a message beside its content
  Least,         \* what clipping leaves of a content (32 characters)
  MarkerSize,    \* the size of the marker for groups left out
  MessageLimit   \* feedback_chars and initial_user_chars

ASSUME ContextAssumption ==
  Overhead \in Nat /\ Least \in Nat \ {0} /\ MarkerSize \in Nat /\ MessageLimit \in Nat \ {0}

NoCall == 0
TooLarge == << >>

Message(role, size, call, says) == [role |-> role, size |-> size, call |-> call, says |-> says]

\* _clip_text: the head and the tail stay around a marker; what a clipped message
\* says can no longer be relied on.
Clipped(message, limit) ==
  IF message.size <= limit THEN message ELSE [message EXCEPT !.size = limit, !.says = {}]

\* _message_chars
Chars(messages) == FoldLeft(LAMBDA n, m : n + m.size + Overhead, 0, messages)

NewContext(stable, user) ==
  [stable |-> stable, user |-> Clipped(user, MessageLimit), groups |-> << >>]

-----------------------------------------------------------------------------
(* The history.                                                            *)

AppendAssistant(context, message) ==
  [context EXCEPT !.groups = Append(@, <<message>>)]

\* The result joins the newest group that makes the call.
AppendToolResult(context, message) ==
  LET calling == {g \in DOMAIN context.groups :
                    \E i \in DOMAIN context.groups[g] :
                      context.groups[g][i].role = "assistant"
                      /\ context.groups[g][i].call = message.call}
  IN  [context EXCEPT !.groups[Max(calling)] = Append(@, Clipped(message, MessageLimit))]

AppendFeedback(context, message) ==
  [context EXCEPT !.groups = Append(@, <<Clipped(message, MessageLimit)>>)]

\* replace_compacted_history
ReplaceHistory(context, summary, limit) ==
  [context EXCEPT !.groups = << <<Clipped(summary, limit)>> >>]

\* clone_history and the stable messages: everything that is kept.
Saved(context) == context.stable \o <<context.user>> \o FlattenSeq(context.groups)

\* messages_for_compaction
CompactionMessages(context, instruction) == Append(Saved(context), instruction)

-----------------------------------------------------------------------------
(* The projection.                                                         *)

\* _required_group_indexes: the newest Tool exchange and the newest user message.
Required(groups) ==
  LET WithTool == {g \in DOMAIN groups : \E i \in DOMAIN groups[g] : groups[g][i].call # NoCall}
      WithUser == {g \in DOMAIN groups : \E i \in DOMAIN groups[g] : groups[g][i].role = "user"}
  IN  UNION {IF S = {} THEN {} ELSE {Max(S)} : S \in {WithTool, WithUser}}

\* _project_messages
Projected(context, selected) ==
  LET groups == context.groups
      marker == IF selected = DOMAIN groups THEN << >>
                ELSE <<Message("user", MarkerSize, NoCall, {})>>
      kept == [i \in DOMAIN groups |-> IF i \in selected THEN groups[i] ELSE << >>]
  IN  context.stable \o <<context.user>> \o marker \o FlattenSeq(kept)

\* The other groups from the newest to the oldest, each where it still fits: a
\* group that does not fit does not keep an older one out.
Selected(context, budget) ==
  LET newestFirst == Reverse([i \in DOMAIN context.groups |-> i])
      Add(selected, g) ==
        IF Chars(Projected(context, selected \cup {g})) <= budget THEN selected \cup {g}
        ELSE selected
  IN  FoldLeft(Add, Required(context.groups), newestFirst)

\* _fit_message_contents: old messages are clipped before the task, the task before
\* the stable messages that are not protected, the last two messages at the end.
Fitted(messages, budget, base, protected) ==
  LET old == IF Len(messages) - 2 > base THEN Len(messages) - 2 ELSE base
      Positions(lo, hi) == [i \in 1..(hi - lo + 1) |-> lo + i - 1]
      order == Positions(base + 1, old) \o <<base>> \o Positions(protected + 1, base - 1)
                 \o Positions(old + 1, Len(messages))
      Clip(ms, i) ==
        LET overflow == Chars(ms) - budget
            target == IF ms[i].size - overflow > Least THEN ms[i].size - overflow ELSE Least
        IN  IF overflow <= 0 THEN ms ELSE [ms EXCEPT ![i] = Clipped(@, target)]
      fitted == FoldLeft(Clip, messages, order)
  IN  IF Chars(fitted) <= budget THEN fitted ELSE TooLarge

\* messages_for_request, with the stable messages protected.
RequestMessages(context, budget) ==
  Fitted(Projected(context, Selected(context, budget)), budget,
         Len(context.stable) + 1, Len(context.stable))
=============================================================================
