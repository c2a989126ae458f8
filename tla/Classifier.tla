----------------------------- MODULE Classifier -----------------------------
(***************************************************************************)
(* parser/classifier.rs: how the captured output and the exit code of a    *)
(* failed installer become a category and the retryable flag the executor  *)
(* decides on.  A text is abstracted to the set of pattern groups that     *)
(* match somewhere in it; the wording of the patterns is left out.         *)
(***************************************************************************)
EXTENDS Integers, Sequences

(* The pattern groups and the executor's synthetic markers.                *)
Groups == {"cancelled_marker", "timeout", "post_install_marker", "bootstrap",
           "checksum", "apt_lock", "network", "apt_repair", "root_refusal",
           "permission", "libc", "dependency", "oom", "resource", "syntax"}

Categories == {"cancelled", "timeout", "post_install", "bootstrap_mismatch",
               "checksum_mismatch", "network", "apt_repair_failed",
               "command_not_found", "permission", "dependency", "resource",
               "syntax_error", "unknown"}

(* Exit codes the classifier tells apart; 1 stands for every other one.    *)
ExitCodes == {1, 126, 127, 137}

Rule(group, code, category, retryable) ==
    [group |-> group, code |-> code, category |-> category,
     retryable |-> retryable]

AnyCode == 0 - 2   \* a rule without an exit code; no process returns it

(* classify_error, one rule per early return, in evaluation order.         *)
Rules ==
    << Rule("cancelled_marker",    AnyCode, "cancelled",          FALSE),
       Rule("timeout",             AnyCode, "timeout",            FALSE),
       Rule("post_install_marker", AnyCode, "post_install",       FALSE),
       Rule("bootstrap",           AnyCode, "bootstrap_mismatch", FALSE),
       Rule("checksum",            AnyCode, "checksum_mismatch",  FALSE),
       Rule("apt_lock",            AnyCode, "dependency",         TRUE),
       Rule("network",             AnyCode, "network",            TRUE),
       Rule("apt_repair",          AnyCode, "apt_repair_failed",  FALSE),
       Rule("none",                127,     "command_not_found",  FALSE),
       Rule("root_refusal",        AnyCode, "permission",         FALSE),
       Rule("permission",          126,     "permission",         FALSE),
       Rule("libc",                AnyCode, "dependency",         FALSE),
       Rule("dependency",          AnyCode, "dependency",         FALSE),
       Rule("oom",                 137,     "resource",           FALSE),
       Rule("resource",            AnyCode, "resource",           FALSE),
       Rule("syntax",              AnyCode, "syntax_error",       FALSE) >>

Fires(rule, text, code) == rule.group \in text \/ rule.code = code

Hits(rules, text, code) ==
    {k \in DOMAIN rules : Fires(rules[k], text, code)}

Least(S) == CHOOSE k \in S : \A j \in S : k <= j

Unknown == [category |-> "unknown", retryable |-> FALSE]

FirstMatch(rules, text, code) ==
    LET hits == Hits(rules, text, code)
        rule == rules[Least(hits)]
    IN IF hits = {} THEN Unknown
       ELSE [category |-> rule.category, retryable |-> rule.retryable]

classify_error(text, code) == FirstMatch(Rules, text, code)

-----------------------------------------------------------------------------
(* Groups that say the attempt failed for good, whatever else was printed, *)
(* and groups that say another attempt may succeed.                        *)
Definitive == {"cancelled_marker", "timeout", "post_install_marker",
               "bootstrap", "checksum"}
TransientGroups == {"network", "apt_lock"}

(* What should_retry_result relies on, for every text and exit code        *)
(* (classify_error, classifier.rs:66-267): an error is retryable exactly   *)
(* when the output shows something transient and nothing definitive.       *)
RetryableExactly ==
    \A text \in SUBSET Groups, code \in ExitCodes :
        LET class == classify_error(text, code)
        IN /\ class.category \in Categories
           /\ class.retryable <=> /\ text \cap TransientGroups # {}
                                  /\ text \cap Definitive = {}
=============================================================================
