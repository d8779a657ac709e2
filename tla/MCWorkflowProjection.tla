----------------------- MODULE MCWorkflowProjection -----------------------
EXTENDS WorkflowProjection
=============================================================================
