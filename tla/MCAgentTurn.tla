---------------------------- MODULE MCAgentTurn ----------------------------
(* Small instances of AgentTurn. *)
EXTENDS AgentTurn

CONSTANT a1, bad

MCTools    == {"web_search", "web_fetch", "write_file"}
MCArgs     == {a1}
MCChanging == {[tool |-> "write_file", arg |-> a1]}
MCOffers   == {MCTools}

Some(traits) == [body |-> "some", admits |-> "admits" \in traits, denial |-> "denial" \in traits,
                 refusal |-> "refusal" \in traits, punt |-> "punt" \in traits]
Flourish == [body |-> "flourish", admits |-> FALSE, denial |-> FALSE,
             refusal |-> FALSE, punt |-> FALSE]

(* Every gate has its text; a refusal usually also says "cannot". *)
MCGateTexts == {NoText, Flourish, Some({"admits"}), Some({"admits", "refusal"}),
                Some({"denial"}), Some({"punt"})}
=============================================================================
