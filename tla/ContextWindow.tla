--------------------------- MODULE ContextWindow ----------------------------
(***************************************************************************)
(* What of a conversation goes to the network with a prompt                 *)
(* (src/ui/web_state.py): as many of the newest messages as the limit       *)
(* leaves room for, between a header and the prompt.                        *)
(*                                                                          *)
(* A message is its sizes: the characters of its role and of its content.   *)
(* An environment variable is Unset, or text that int() refuses, Bad, or a  *)
(* number.                                                                  *)
(***************************************************************************)
EXTENDS Integers, SequencesExt

Unset == [set |-> FALSE, ok |-> FALSE, n |-> 0]
Bad == [set |-> TRUE, ok |-> FALSE, n |-> 0]
Number(n) == [set |-> TRUE, ok |-> TRUE, n |-> n]

\* context_chars_per_token; env holds the three WEB_ variables.
CharsPerToken(env) ==
    IF env.perToken.ok THEN Max({env.perToken.n, 1}) ELSE 4

\* max_context_chars: tokens come first, and what does not parse is the default.
MaxContextChars(env) ==
    CASE env.tokens.ok  -> Max({env.tokens.n, 250}) * CharsPerToken(env)
      [] env.tokens.set /\ ~env.tokens.ok -> 2000 * CharsPerToken(env)
      [] ~env.tokens.set /\ env.chars.ok -> Max({env.chars.n, 1000})
      [] OTHER -> 8000

-----------------------------------------------------------------------------
(* build_network_context *)

HeaderChars == 114
FooterChars == 23
MinRoom == 120      \* the least of a message worth sending

\* A block is "role: content" and a newline.
BlockChars(m) == m.role + 2 + m.content + 1

Remaining(limit, prompt) == limit - HeaderChars - (FooterChars + prompt)

\* The loop over the messages, newest first: kept holds how much of each
\* selected message is sent, oldest first.
Loop == [kept |-> <<>>, used |-> 0, chat |-> 0, truncated |-> FALSE]

\* MUTANT of Take: the newline is not counted.
TakeUncounted(loop, m, remaining) ==
    LET room == remaining - loop.used - m.role - 2
        cut == [loop EXCEPT !.truncated = TRUE] IN
    IF loop.truncated THEN loop
    ELSE IF loop.used + BlockChars(m) <= remaining
    THEN [loop EXCEPT !.kept = <<m.content>> \o @,
                      !.used = @ + BlockChars(m), !.chat = @ + m.content]
    ELSE IF room > MinRoom /\ loop.kept = <<>>
    THEN [cut EXCEPT !.kept = <<room>> \o @, !.used = remaining, !.chat = @ + room]
    ELSE cut

\* One message: it fits, or it ends the loop, the newest one with its last
\* characters if they are worth it.
Take(loop, m, remaining) ==
    LET room == remaining - loop.used - m.role - 2 - 1
        cut == [loop EXCEPT !.truncated = TRUE] IN
    IF loop.truncated THEN loop
    ELSE IF loop.used + BlockChars(m) <= remaining
    THEN [loop EXCEPT !.kept = <<m.content>> \o @,
                      !.used = @ + BlockChars(m), !.chat = @ + m.content]
    ELSE IF room > MinRoom /\ loop.kept = <<>>
    THEN [cut EXCEPT !.kept = <<room>> \o @, !.used = remaining, !.chat = @ + room]
    ELSE cut

Selected(messages, remaining) ==
    LET after[k \in 0 .. Len(messages)] ==
            IF k = 0 THEN Loop
            ELSE Take(after[k - 1], messages[Len(messages) + 1 - k], remaining)
    IN  after[Len(messages)]

\* The prompt that is sent, and the numbers of make_context_info.
NetworkContext(messages, prompt, limit) ==
    LET loop == Selected(messages, Remaining(limit, prompt))
        bare == loop.kept = <<>> IN
    [kept      |-> loop.kept,
     included  |-> Len(loop.kept),
     history   |-> loop.used,
     total     |-> IF bare THEN prompt ELSE HeaderChars + loop.used + FooterChars + prompt,
     chat      |-> loop.chat + prompt,
     truncated |-> loop.truncated \/ Len(loop.kept) < Len(messages)]

-----------------------------------------------------------------------------
(* What a context should be.                                                *)

\* NewestChars(messages)[k]: what the newest k messages take as blocks.
NewestChars(messages) ==
    LET chars[k \in 0 .. Len(messages)] ==
            IF k = 0 THEN 0
            ELSE chars[k - 1] + BlockChars(messages[Len(messages) + 1 - k])
    IN  chars

\* The contents of the newest k messages, oldest first.
Newest(messages, k) == [i \in 1 .. k |-> messages[Len(messages) - k + i].content]

\* The messages as they are sent: with their roles, and what is kept of them.
Sent(c, messages) ==
    [i \in 1 .. c.included |->
        [role |-> messages[Len(messages) - c.included + i].role, content |-> c.kept[i]]]

\* A prompt that is sent with history keeps the limit, and the characters
\* reported are those it has.
FitsLimit(c, messages, limit) ==
    c.included > 0 =>
        /\ c.total <= limit
        /\ c.history = NewestChars(Sent(c, messages))[c.included]

\* The messages sent are the newest ones, whole, as many as there is room
\* for; when the newest has no room itself, its end fills the room there is,
\* if that is more than MinRoom.
NewestFirst(c, messages, available) ==
    messages # <<>> =>
        LET most == Max({k \in 0 .. Len(messages) :
                            k = 0 \/ NewestChars(messages)[k] <= available})
            room == available - messages[Len(messages)].role - 3
        IN  IF most > 0 THEN c.kept = Newest(messages, most)
            ELSE c.kept = IF room > MinRoom THEN <<room>> ELSE <<>>

\* The client is told that something was left out exactly when something was.
TruncationTold(c, messages) ==
    c.truncated <=> c.kept # [i \in DOMAIN messages |-> messages[i].content]

\* The window is as many of the newest messages as fit, and says so.
IsWindowOf(c, messages, prompt, limit) ==
    /\ FitsLimit(c, messages, limit)
    /\ NewestFirst(c, messages, Remaining(limit, prompt))
    /\ TruncationTold(c, messages)
=============================================================================
