\* The same reports, against what REPORT-SCHEMA.md says of a syntax-binding fatal.
SPECIFICATION Spec
CONSTANTS
    Catalog <- MCCatalog
    BatchRuleListCap = 2
INVARIANT
    SyntaxBindingFatalBlocks
