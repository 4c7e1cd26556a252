------------------------ MODULE MCPipelineCoordinator ------------------------
EXTENDS PipelineCoordinator, TLC

HandlerSymmetry == Permutations(Handlers)

=============================================================================
