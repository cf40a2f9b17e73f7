-------------------------- MODULE MCModernization --------------------------
(***************************************************************************)
(* DEFAULT_POLICY, FINAL_COMPATIBILITY and the runtimes of the example     *)
(* configuration for Modernization.                                        *)
(***************************************************************************)
EXTENDS Modernization, TLC

Requires(exact, minimum, maximum) ==
    [exact |-> exact, minimum |-> minimum, maximum |-> maximum, current |-> FALSE]

DEFAULT_POLICY ==
    [automatic |-> 490, legacy |-> <<490, 680>>,
     checkpoints |-> <<[wordpress |-> 530, php |-> Requires({740}, 0, {})],
                       [wordpress |-> 620, php |-> Requires({740}, 0, {})],
                       [wordpress |-> 680, php |-> Requires({}, 810, {840})]>>,
     final |-> [Requires({}, 810, {}) EXCEPT !.current = TRUE]]
\* FINAL_COMPATIBILITY asks for at least 7.2.24, here 724: the policy asks for more.
FINAL_COMPATIBILITY ==
    <<[first |-> 690, last |-> 690, php |-> Requires({}, 724, {850})],
      [first |-> 700, last |-> 710, php |-> Requires({}, 740, {850})]>>

\* One update that may change the widgets stands for the six of them.
UpdateNames == <<"theme_update", "widget_validation">>
Names == {"current", "legacy", "modern"}
Configured == [current |-> 850, legacy |-> 740, modern |-> 840]

\* TLC evaluates once a definition that others use, again and again one that a constant
\* stands for: those of the configuration only name another.
DefaultPolicy == DEFAULT_POLICY
FinalCompatibility == FINAL_COMPATIBILITY
Updates == UpdateNames
AsConfigured == Configured

Alike == Permutations(Widgets)

=============================================================================
