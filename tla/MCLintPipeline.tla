--------------------------- MODULE MCLintPipeline ---------------------------
(* The requests the products make (lint_command.go, api/server/lint.go,     *)
(* lsp/code_action.go, lsp/diagnostics.go) and one that only tests make.     *)
EXTENDS LintPipeline

Request == [kind |-> "autofix", plugin |-> "concurrent", keepPartial |-> TRUE, commits |-> FALSE,
            verifyLast |-> TRUE, stopOnSyntax |-> FALSE, hostReads |-> FALSE, pinned |-> FALSE]

\* handleLintCommand: a command that is given no file system shares the disk with its host.
PluginHostReadsInitialText(fs) == fs = None
FixCommand(fs) == [Request EXCEPT !.commits = TRUE, !.hostReads = PluginHostReadsInitialText(fs)]
LintCommand(fs) == [Request EXCEPT !.kind = "lint", !.hostReads = PluginHostReadsInitialText(fs)]

\* runCLI gives its command a file system; only tests call it without one.
BaseFS == "bundled"
CLIFix == FixCommand(BaseFS)
CLILint == LintCommand(BaseFS)
BareFix == FixCommand(None)

APIFix == Request
FixAll == [Request EXCEPT !.plugin = "after", !.keepPartial = FALSE, !.verifyLast = FALSE,
                          !.stopOnSyntax = TRUE, !.pinned = TRUE]
Diagnostics == [Request EXCEPT !.kind = "progressive", !.plugin = "progressive", !.keepPartial = FALSE,
                               !.verifyLast = FALSE, !.pinned = TRUE]

AllRequests == {CLIFix, CLILint, APIFix, FixAll, Diagnostics, BareFix}
InMemoryFix == {APIFix}
=============================================================================
