------------------------------- MODULE MCPrompts ------------------------------
EXTENDS Prompts

(***************************************************************************)
(* ai-workflow/architecture.md, "Concurrency: pending": concurrent calls   *)
(* for the same un-granted path end with "no double-prompt, no hang".      *)
(***************************************************************************)
ConcurrentCallsDoNotHang ==
  (\E k \in Keys : \A c \in Calls : key[c] = k) => <>BatchOver

===============================================================================
